---- MODULE Spec2Model ----
(***************************************************************************)
(* Credential-and-grant lifecycle of charon (gravyvalet):                  *)
(*   - the OAuth handshake of ExternalProvider (auth_url, auth_callback,   *)
(*     _set_external_account),                                             *)
(*   - the per-user grant ledger of BaseOAuthUserSettings (oauth_grants),  *)
(*   - the per-node binding of BaseOAuthNodeSettings / NodeSettings.       *)
(* Python dicts are modelled as functions whose DOMAIN is the set of keys  *)
(* present; Python's None is the string "None".                            *)
(***************************************************************************)
EXTENDS FiniteSets, Integers, Sequences, TLC

None == "None"

EmptyMap == [x \in {} |-> None]

\* d[k] = v on a dict
Put(d, k, v) == [x \in DOMAIN d \cup {k} |-> IF x = k THEN v ELSE d[x]]

\* del d[k] / d.pop(k, None)
Del(d, k) == [x \in DOMAIN d \ {k} |-> d[x]]

\* d.get(k), for string values
Get(d, k) == IF k \in DOMAIN d THEN d[k] ELSE None

\* an unset (None) datetime; set ones are instants 0, 1, ... of the clock
NoTime == 0 - 1

\* d.get(k), for datetimes
GetTime(d, k) == IF k \in DOMAIN d THEN d[k] ELSE NoTime

\* `if d.get(k):` -- a key that is present holds a non-empty value
Truthy(d, k) == k \in DOMAIN d

(***************************************************************************)
(* Bounds and input domains                                                *)
(***************************************************************************)
\* at most MaxAccounts ExternalAccount rows are created
MaxAccounts == 2

Users == {"u1", "u2"}

\* the state values / request tokens a provider hands out; 0 is none
Nonces == {1, 2}

\* the (user, provider) pairs whose handshakes are followed
Handshakes == {<<"u1", "box">>, <<"u1", "legacy">>, <<"u2", "box">>}

\* "box" is Provider (OAuth2, the class default); "legacy" stands for a
\* subclass that sets _oauth_version = OAUTH1
Providers == {"box", "legacy"}

RemoteIds == {"r1"}

(***************************************************************************)
(* State                                                                   *)
(***************************************************************************)
VARIABLES
    now,                \* timezone.now()
    oauth_states,       \* [user -> session['oauth_states']], a dict by short_name
    accounts,           \* the ExternalAccount table, a sequence of rows; _id = index
    external_accounts,  \* [user -> set of account ids], OSFUser.external_accounts
    oauth_grants,       \* [user -> UserSettings.oauth_grants], node -> account -> metadata
    node_settings,      \* [node -> NodeSettings row, or None when the node has no addon]
    is_deleted,         \* [node -> AbstractNode.is_deleted]
    revoking,           \* the revoke_oauth_access call in progress, or None
    in_flight,          \* [request -> a call in progress and the instances it loaded]
    last                \* the last call and what it returned or raised

vars == <<now, oauth_states, accounts, external_accounts, oauth_grants,
          node_settings, is_deleted, revoking, in_flight, last>>

ledgerVars == <<oauth_grants, node_settings, is_deleted, revoking>>

handshakeVars == <<oauth_states, accounts, external_accounts>>

(***************************************************************************)
(* ExternalProvider: the OAuth handshake                                   *)
(***************************************************************************)
\* ExternalProvider._oauth_version; only the "legacy" subclass overrides it
oauth_version(p) == IF p = "box" THEN "OAUTH2" ELSE "OAUTH1"

\* Provider.name
provider_name(p) == IF p = "box" THEN "Box" ELSE "Legacy"

\* a pending entry left as it is
auth_url_KeepsPending(states, p, issued) ==
    IF p \in DOMAIN states THEN states
    ELSE IF oauth_version(p) = "OAUTH2"
    THEN Put(states, p, [state |-> issued])
    ELSE Put(states, p, [token |-> issued, secret |-> issued])

\* auth_url: what the session's oauth_states dict holds afterwards. `issued`
\* is the state generated by OAuth2Session.authorization_url, or the temporary
\* oauth_token of fetch_request_token (its oauth_token_secret is named by it).
auth_url(states, p, issued) ==
    IF oauth_version(p) = "OAUTH2"
    THEN Put(states, p, [state |-> issued])
    ELSE Put(states, p, [token |-> issued, secret |-> issued])

\* dt.datetime.fromtimestamp(float(x)): instants are integers on the clock's line
fromtimestamp(x) == x

\* _default_handle_callback: only the truthy fields of the response are kept
default_handle_callback(p, data) ==
    IF oauth_version(p) = "OAUTH1"
    THEN LET v0 == EmptyMap
             v1 == IF Truthy(data, "oauth_token")
                   THEN Put(v0, "key", data["oauth_token"]) ELSE v0
             v2 == IF Truthy(data, "oauth_token_secret")
                   THEN Put(v1, "secret", data["oauth_token_secret"]) ELSE v1
         IN v2
    ELSE LET v0 == EmptyMap
             v1 == IF Truthy(data, "access_token")
                   THEN Put(v0, "key", data["access_token"]) ELSE v0
             v2 == IF Truthy(data, "scope")
                   THEN Put(v1, "scope", data["scope"]) ELSE v1
             v3 == IF Truthy(data, "refresh_token")
                   THEN Put(v2, "refresh_token", data["refresh_token"]) ELSE v2
             v4 == IF Truthy(data, "expires_at")
                   THEN Put(v3, "expires_at", fromtimestamp(data["expires_at"])) ELSE v3
         IN v4

\* Provider.handle_callback reads response['access_token'] and
\* response['refresh_token'] (a KeyError when one is absent) and asks Box who
\* the user is; `about` is Box's answer, and hook is "BoxAPIException" when
\* that request raises. The hook of the OAuth1 subclass is abstract: it
\* provides provider_id and profile_url.
handle_callback_raises(p, data, hook) ==
    \/ hook # "ok"
    \/ p = "box" /\ ~({"access_token", "refresh_token"} \subseteq DOMAIN data)

handle_callback(p, data, about) ==
    IF p = "box"
    THEN [provider_id |-> about.id,
          display_name |-> about.name,
          profile_url |-> <<"https://app.box.com/profile/", about.id>>]
    ELSE [provider_id |-> about.id,
          profile_url |-> <<"profile", about.id>>]

\* info.update(more)
Update(info, more) ==
    [k \in DOMAIN info \cup DOMAIN more |-> IF k \in DOMAIN more THEN more[k] ELSE info[k]]

\* the rows ExternalAccount.objects.get_or_create finds
FindAccount(accts, p, pid) ==
    {i \in DOMAIN accts : accts[i].provider = p /\ accts[i].provider_id = pid}

\* the row get_or_create inserts: every other field at its default
NewAccount(p, pid) ==
    [provider |-> p, provider_id |-> pid, provider_name |-> "",
     oauth_key |-> None, oauth_secret |-> None, refresh_token |-> None,
     date_last_refreshed |-> NoTime, expires_at |-> NoTime,
     display_name |-> None, profile_url |-> None]

\* a row inserted whether or not one is found
get_or_create_Always(accts, p, pid) == Append(accts, NewAccount(p, pid))

\* the table after get_or_create
get_or_create(accts, p, pid) ==
    IF FindAccount(accts, p, pid) # {} THEN accts ELSE Append(accts, NewAccount(p, pid))

\* the field assignments of _set_external_account, lines 486-501
SetAccountFields(row, p, info, t) ==
    [row EXCEPT !.provider_name = provider_name(p),
                !.oauth_key = info["key"],
                !.oauth_secret = Get(info, "secret"),
                !.expires_at = GetTime(info, "expires_at"),
                !.refresh_token = Get(info, "refresh_token"),
                !.date_last_refreshed = t,
                !.display_name = Get(info, "display_name"),
                !.profile_url = Get(info, "profile_url")]

\* the session's entry left in place
ClearHandshake_Kept(states, p) == states

\* the session's oauth_states after lines 510-512
ClearHandshake(states, p) == IF p \in DOMAIN states THEN Del(states, p) ELSE states

\* the account added to the user's accounts only when the row was created
set_external_account_LinkOnCreate(accts, owned, states, p, info, t) ==
    LET table == get_or_create(accts, p, info["provider_id"])
        id    == CHOOSE i \in FindAccount(table, p, info["provider_id"]) : TRUE
    IN [accounts |-> [table EXCEPT ![id] = SetAccountFields(table[id], p, info, t)],
        external_accounts |-> IF FindAccount(accts, p, info["provider_id"]) # {}
                              THEN owned ELSE owned \cup {id},
        oauth_states |-> ClearHandshake(states, p)]

\* _set_external_account: the table, the user's accounts and the session after it
set_external_account(accts, owned, states, p, info, t) ==
    LET table == get_or_create(accts, p, info["provider_id"])
        id    == CHOOSE i \in FindAccount(table, p, info["provider_id"]) : TRUE
    IN [accounts |-> [table EXCEPT ![id] = SetAccountFields(table[id], p, info, t)],
        external_accounts |-> IF id \in owned THEN owned ELSE owned \cup {id},
        oauth_states |-> ClearHandshake(states, p)]

\* The value of the callback that must match the session: request.args['state']
\* for OAuth2, request.args['oauth_token'] for OAuth1
cached_value(p, cached) == IF oauth_version(p) = "OAUTH1" THEN cached.token ELSE cached.state

\* a session without the provider's entry read as an empty one
cached_credentials_Default(states, p) ==
    IF p \in DOMAIN states THEN {states[p]}
    ELSE {[state |-> 0, token |-> 0, secret |-> 0]}

\* the comparison with the session left out
same_flow_Unchecked(p, cached, args) == TRUE

\* lines 425-428: current_session['oauth_states'][self.short_name], the empty
\* set standing for the KeyError
cached_credentials(states, p) == IF p \in DOMAIN states THEN {states[p]} ELSE {}

\* lines 430-435 and 445-449: "make sure this is the same user that started
\* the flow"
same_flow(p, cached, args) == cached_value(p, cached) = args.value

\* the session's entry deleted when the token request fails
auth_callback_ExchangeConsumes(accts, owned, states, p, args, io, t) ==
    LET same == [accounts |-> accts, external_accounts |-> owned, oauth_states |-> states]
        out(result, exchanged, after) ==
            [result |-> result, exchanged |-> exchanged, after |-> after]
    IN IF args.error
       THEN out("False", FALSE, same)
       ELSE IF cached_credentials(states, p) = {}
       THEN out("PermissionsError: OAuth flow not recognized.", FALSE, same)
       ELSE IF ~same_flow(p, CHOOSE c \in cached_credentials(states, p) : TRUE, args)
       THEN out("PermissionsError: Request token does not match", FALSE, same)
       ELSE IF io.exchange = "MissingTokenError"
       THEN out(IF oauth_version(p) = "OAUTH2" THEN "HTTPError 503" ELSE "raised", TRUE,
                [same EXCEPT !.oauth_states = ClearHandshake(states, p)])
       ELSE IF io.exchange # "ok"
       THEN out("raised", TRUE, [same EXCEPT !.oauth_states = ClearHandshake(states, p)])
       ELSE IF handle_callback_raises(p, io.data, io.hook)
       THEN out("raised", TRUE, same)
       ELSE out("True", TRUE,
                set_external_account(accts, owned, states, p,
                    Update(default_handle_callback(p, io.data),
                           handle_callback(p, io.data, io.about)),
                    t))

\* auth_callback. args is request.args: error says whether it holds 'error',
\* value is its 'state' (OAuth2) or 'oauth_token' (OAuth1), 0 when absent.
\* io is how the provider answers: exchange is "ok", "MissingTokenError" (or
\* RequestsHTTPError) or "ConnectionError" (any exception the code does not
\* catch), data the token response, hook and about the answer to the hook.
\* Gives the outcome, whether a token request was made, and the state after.
auth_callback(accts, owned, states, p, args, io, t) ==
    LET same == [accounts |-> accts, external_accounts |-> owned, oauth_states |-> states]
        out(result, exchanged, after) ==
            [result |-> result, exchanged |-> exchanged, after |-> after]
    IN IF args.error
       THEN out("False", FALSE, same)
       ELSE IF cached_credentials(states, p) = {}
       THEN out("PermissionsError: OAuth flow not recognized.", FALSE, same)
       ELSE IF ~same_flow(p, CHOOSE c \in cached_credentials(states, p) : TRUE, args)
       THEN out("PermissionsError: Request token does not match", FALSE, same)
       ELSE IF io.exchange = "MissingTokenError"
       THEN out(IF oauth_version(p) = "OAUTH2" THEN "HTTPError 503" ELSE "raised", TRUE, same)
       ELSE IF io.exchange # "ok"
       THEN out("raised", TRUE, same)
       ELSE IF handle_callback_raises(p, io.data, io.hook)
       THEN out("raised", TRUE, same)
       ELSE out("True", TRUE,
                set_external_account(accts, owned, states, p,
                    Update(default_handle_callback(p, io.data),
                           handle_callback(p, io.data, io.about)),
                    t))

(***************************************************************************)
(* The handshake's inputs                                                  *)
(***************************************************************************)
AccessTokens == {"T1", "T2"}

RefreshTokens == {"R1"}

ExpiresIn == {1}

DisplayNames == {"d1"}

\* request.args of the callback
CallbackArgs == [error : BOOLEAN, value : {0} \cup Nonces]

\* The token a successful exchange returns at time t. OAuth2: fetch_token
\* gives access_token, and refresh_token and expires_at (= t + expires_in)
\* when the provider sends them. OAuth1: oauth_token and oauth_token_secret.
TokenResponses(p, t) ==
    IF oauth_version(p) = "OAUTH2"
    THEN UNION {
           {[access_token |-> k]}
           \cup {[access_token |-> k, refresh_token |-> r] : r \in RefreshTokens}
           \cup {[access_token |-> k, refresh_token |-> r, expires_at |-> t + e] :
                    r \in RefreshTokens, e \in ExpiresIn}
           : k \in AccessTokens}
    ELSE {[oauth_token |-> k, oauth_token_secret |-> "S1"] : k \in AccessTokens}

\* How the provider can answer a callback that asks it
ProviderAnswers(p, t) ==
    {[exchange |-> "ok", data |-> d, hook |-> "ok", about |-> [id |-> i, name |-> n]] :
        d \in TokenResponses(p, t), i \in RemoteIds, n \in DisplayNames}
    \cup
    {[exchange |-> x.exchange, data |-> [access_token |-> "T1", refresh_token |-> "R1"],
      hook |-> x.hook, about |-> [id |-> "r1", name |-> "d1"]] :
        x \in {[exchange |-> "MissingTokenError", hook |-> "ok"],
               [exchange |-> "ConnectionError", hook |-> "ok"],
               [exchange |-> "ok", hook |-> "BoxAPIException"]}}

(***************************************************************************)
(* Actions of the handshake                                                *)
(***************************************************************************)
\* what auth_callback raises when the handshake fails
HandshakeErrors ==
    {"PermissionsError: OAuth flow not recognized.",
     "PermissionsError: Request token does not match",
     "HTTPError 503", "raised"}

\* user u opens provider p's auth_url and is issued a state / request token
AuthUrlWith(u, p, issued) ==
    /\ oauth_states' = [oauth_states EXCEPT ![u] = auth_url(@, p, issued)]
    /\ last' = [op |-> "auth_url", result |-> "url", user |-> u, provider |-> p,
                issued |-> issued,
                replaced |-> IF p \in DOMAIN oauth_states[u]
                             THEN cached_value(p, oauth_states[u][p]) ELSE 0]
    /\ UNCHANGED <<now, in_flight, accounts, external_accounts, ledgerVars>>

AuthUrl(u, p) == \E issued \in Nonces : AuthUrlWith(u, p, issued)

\* the provider redirects user u back to provider p's callback
AuthCallbackWith(u, p, args, io) ==
    LET r == auth_callback(accounts, external_accounts[u], oauth_states[u],
                           p, args, io, now)
    IN /\ Len(r.after.accounts) <= MaxAccounts
       /\ accounts' = r.after.accounts
       /\ external_accounts' = [external_accounts EXCEPT ![u] = r.after.external_accounts]
       /\ oauth_states' = [oauth_states EXCEPT ![u] = r.after.oauth_states]
       /\ last' = [op |-> "auth_callback", result |-> r.result, exchanged |-> r.exchanged]
       /\ UNCHANGED <<now, in_flight, ledgerVars>>

\* a callback that ends before the token request has no answer to wait for
AnswersTo(u, p, args) ==
    IF args.error \/ p \notin DOMAIN oauth_states[u]
       \/ cached_value(p, oauth_states[u][p]) # args.value
    THEN {CHOOSE io \in ProviderAnswers(p, now) : TRUE}
    ELSE ProviderAnswers(p, now)

AuthCallback(u, p) ==
    \E args \in CallbackArgs :
        \E io \in AnswersTo(u, p, args) : AuthCallbackWith(u, p, args, io)

(***************************************************************************)
(* _set_external_account called with the info a provider's callback        *)
(* assembled, at the time of the clock                                     *)
(***************************************************************************)
\* the clock stops at MaxTime
MaxTime == 2

UpsertIds == {"r1", "r2"}

UpsertNames == {"d1", "d2"}

\* an info dict: the remote identity and the token always, the refresh token
\* r and the expiry e when they are not None
InfoOf(pid, name, r, e) ==
    LET i0 == [provider_id |-> pid, key |-> "T1", display_name |-> name,
               profile_url |-> <<"profile", pid>>]
        i1 == IF r # None THEN Put(i0, "refresh_token", r) ELSE i0
    IN IF e # NoTime THEN Put(i1, "expires_at", e) ELSE i1

\* the infos a callback may hand over at time t: the expiry, when there is
\* one, was computed from a token response received at time t or before
Infos(t) ==
    {InfoOf(pid, name, r, e) :
        pid \in UpsertIds, name \in UpsertNames,
        r \in {None} \cup RefreshTokens,
        e \in {NoTime} \cup {t0 + x : t0 \in 0..t, x \in ExpiresIn}}

\* user u's _set_external_account for provider p with info
SetExternalAccountWith(u, p, info) ==
    LET r == set_external_account(accounts, external_accounts[u], oauth_states[u],
                                  p, info, now)
    IN /\ Len(r.accounts) <= MaxAccounts
       /\ accounts' = r.accounts
       /\ external_accounts' = [external_accounts EXCEPT ![u] = r.external_accounts]
       /\ oauth_states' = [oauth_states EXCEPT ![u] = r.oauth_states]
       /\ last' = [op |-> "_set_external_account", result |-> "True",
                   user |-> u, provider |-> p, info |-> info]
       /\ UNCHANGED <<now, in_flight, ledgerVars>>

SetExternalAccount(u, p) == \E info \in Infos(now) : SetExternalAccountWith(u, p, info)

\* time passes
Tick ==
    /\ now < MaxTime
    /\ now' = now + 1
    /\ UNCHANGED <<in_flight, handshakeVars, ledgerVars, last>>

(***************************************************************************)
(* ExternalProvider: refreshing the oauth_key                              *)
(***************************************************************************)
\* the first window read as no window only when expires_at is unset
needs_refresh_ZeroWindow(row, refresh_time, t) ==
    IF row.expires_at # NoTime THEN row.expires_at - t < refresh_time ELSE FALSE

\* _needs_refresh of a provider whose refresh_time is refresh_time, at time t
needs_refresh(row, refresh_time, t) ==
    IF refresh_time # 0 /\ row.expires_at # NoTime
    THEN row.expires_at - t < refresh_time
    ELSE FALSE

\* the expiry window not looked at before the comparison
has_expired_credentials_ZeroWindow(row, expiry_time, t) ==
    IF row.expires_at # NoTime THEN t - row.expires_at > expiry_time ELSE FALSE

\* has_expired_credentials of a provider whose expiry_time is expiry_time
has_expired_credentials(row, expiry_time, t) ==
    IF expiry_time # 0 /\ row.expires_at # NoTime
    THEN t - row.expires_at > expiry_time
    ELSE FALSE

\* force let through every check
short_circuits_ForceAll(row, cfg, force, t) ==
    /\ ~force
    /\ \/ ~cfg.auto_refresh_url
       \/ ~cfg.client
       \/ ~needs_refresh(row, cfg.refresh_time, t)
       \/ has_expired_credentials(row, cfg.expiry_time, t)

\* lines 593-606 of refresh_oauth_key: the checks that return False before
\* the provider is asked. cfg is the provider class: whether auto_refresh_url
\* is set, whether client_id and client_secret are, refresh_time, expiry_time
short_circuits(row, cfg, force, t) ==
    \/ ~cfg.auto_refresh_url
    \/ ~cfg.client
    \/ ~(force \/ needs_refresh(row, cfg.refresh_time, t))
    \/ has_expired_credentials(row, cfg.expiry_time, t) /\ ~force

\* the rejection passed over whether or not the refresh was forced
on_rejection_Swallowed(force) == "False"

\* lines 626-630: AccessDeniedError, InvalidGrantError or TokenExpiredError
on_rejection(force) == IF ~force THEN "False" ELSE "raised"

Rejections == {"AccessDeniedError", "InvalidGrantError", "TokenExpiredError"}

\* each field saved as it is assigned
refresh_oauth_key_SavedPiecewise(row, cfg, force, answer, t) ==
    LET out(result, called, after) ==
            [result |-> result, called |-> called, account |-> after]
    IN IF short_circuits(row, cfg, force, t)
       THEN out("False", FALSE, row)
       ELSE IF answer.kind \in Rejections
       THEN out(on_rejection(force), TRUE, row)
       ELSE IF answer.kind # "ok"
       THEN out("raised", TRUE, row)
       ELSE IF "access_token" \notin DOMAIN answer.token
       THEN out("raised", TRUE, row)
       ELSE IF ~({"refresh_token", "expires_in"} \subseteq DOMAIN answer.token)
       THEN out("raised", TRUE, [row EXCEPT !.oauth_key = answer.token["access_token"]])
       ELSE out("True", TRUE,
                [row EXCEPT !.oauth_key = answer.token["access_token"],
                            !.refresh_token = answer.token["refresh_token"],
                            !.expires_at = t + answer.token["expires_in"],
                            !.date_last_refreshed = t])

\* the refresh token of the response not stored
refresh_oauth_key_TokenKept(row, cfg, force, answer, t) ==
    LET out(result, called, after) ==
            [result |-> result, called |-> called, account |-> after]
    IN IF short_circuits(row, cfg, force, t)
       THEN out("False", FALSE, row)
       ELSE IF answer.kind \in Rejections
       THEN out(on_rejection(force), TRUE, row)
       ELSE IF answer.kind # "ok"
       THEN out("raised", TRUE, row)
       ELSE IF ~({"access_token", "refresh_token", "expires_in"} \subseteq DOMAIN answer.token)
       THEN out("raised", TRUE, row)
       ELSE out("True", TRUE,
                [row EXCEPT !.oauth_key = answer.token["access_token"],
                            !.expires_at = t + answer.token["expires_in"],
                            !.date_last_refreshed = t])

\* refresh_oauth_key with the default keyword arguments: what it returns,
\* whether the provider was asked, and the row saved. answer is the
\* provider's: its kind is "ok" (with the token), a rejection, or any other
\* exception
refresh_oauth_key(row, cfg, force, answer, t) ==
    LET out(result, called, after) ==
            [result |-> result, called |-> called, account |-> after]
    IN IF short_circuits(row, cfg, force, t)
       THEN out("False", FALSE, row)
       ELSE IF answer.kind \in Rejections
       THEN out(on_rejection(force), TRUE, row)
       ELSE IF answer.kind # "ok"
       THEN out("raised", TRUE, row)
       ELSE IF ~({"access_token", "refresh_token", "expires_in"} \subseteq DOMAIN answer.token)
       THEN out("raised", TRUE, row)
       ELSE out("True", TRUE,
                [row EXCEPT !.oauth_key = answer.token["access_token"],
                            !.refresh_token = answer.token["refresh_token"],
                            !.expires_at = t + answer.token["expires_in"],
                            !.date_last_refreshed = t])

\* the provider classes
Configs ==
    [auto_refresh_url : BOOLEAN, client : BOOLEAN, refresh_time : {0, 2}, expiry_time : {0, 1}]

\* the windows asked about
Windows == {0, 1, 2}

\* how the provider answers a refresh request
RefreshAnswers ==
    {[kind |-> "ok", token |-> Put(Put([access_token |-> "T2"], "refresh_token", r),
                                   "expires_in", e)] :
        r \in {"R1", "R2"}, e \in ExpiresIn}
    \cup {[kind |-> "ok", token |-> [access_token |-> "T2"]]}
    \cup {[kind |-> k, token |-> EmptyMap] : k \in {"InvalidGrantError", "ConnectionError"}}

\* _needs_refresh is asked about row i by a provider whose refresh_time is w
NeedsRefreshWith(i, w) ==
    /\ last' = [op |-> "_needs_refresh", w |-> w,
                result |-> IF needs_refresh(accounts[i], w, now) THEN "True" ELSE "False"]
    /\ UNCHANGED <<now, in_flight, handshakeVars, ledgerVars>>

\* has_expired_credentials is asked about row i, with expiry_time w
HasExpiredCredentialsWith(i, w) ==
    /\ last' = [op |-> "has_expired_credentials", w |-> w,
                result |-> IF has_expired_credentials(accounts[i], w, now)
                           THEN "True" ELSE "False"]
    /\ UNCHANGED <<now, in_flight, handshakeVars, ledgerVars>>

\* refresh_oauth_key is called on row i
RefreshOauthKeyWith(i, cfg, force, answer) ==
    LET r == refresh_oauth_key(accounts[i], cfg, force, answer, now)
    IN /\ accounts' = [accounts EXCEPT ![i] = r.account]
       /\ last' = [op |-> "refresh_oauth_key", result |-> r.result, called |-> r.called,
                   force |-> force, answer |-> IF r.called THEN answer.kind ELSE "none"]
       /\ UNCHANGED <<now, in_flight, oauth_states, external_accounts, ledgerVars>>

\* a call that returns before the provider is asked has no answer to wait for
RefreshAnswersTo(i, cfg, force) ==
    IF short_circuits(accounts[i], cfg, force, now)
    THEN {CHOOSE answer \in RefreshAnswers : TRUE}
    ELSE RefreshAnswers

RefreshOauthKey(i) ==
    \E cfg \in Configs, force \in BOOLEAN :
        \E answer \in RefreshAnswersTo(i, cfg, force) :
            RefreshOauthKeyWith(i, cfg, force, answer)

(***************************************************************************)
(* Properties of the handshake (SpecHandshake)                             *)
(***************************************************************************)
\* user h[1] has a handshake with provider h[2] pending
Pending(h) == h[2] \in DOMAIN oauth_states[h[1]]

\* the value the callback carries is not the pending one
Differs(h, args) == cached_value(h[2], oauth_states[h[1]][h[2]]) # args.value

MismatchError == "PermissionsError: Request token does not match"

NotRecognizedError == "PermissionsError: OAuth flow not recognized."

\* the token of a token response
ExchangedToken(p, data) ==
    IF oauth_version(p) = "OAUTH2" THEN data.access_token ELSE data.oauth_token

\* C1 as stated: whenever a handshake is pending, a callback whose value
\* differs from the pending one fails with the mismatch error, asks the
\* provider for no token and leaves the ExternalAccount table as it was.
C1_AsStated ==
    [][\A h \in Handshakes : Pending(h) =>
       \A args \in CallbackArgs : Differs(h, args) =>
       \A io \in AnswersTo(h[1], h[2], args) : AuthCallbackWith(h[1], h[2], args, io)
        => /\ last'.result = MismatchError
           /\ ~last'.exchanged
           /\ accounts' = accounts]_vars

\* C1 amended: whenever a handshake is pending, a callback whose value differs
\* from the pending one asks the provider for no token and leaves the
\* ExternalAccount table and every user's accounts as they were; it fails with
\* the mismatch error, unless the callback carries an `error` parameter: then
\* it returns False without comparing anything.
C1_ReplayProtection ==
    [][\A h \in Handshakes : Pending(h) =>
       \A args \in CallbackArgs : Differs(h, args) =>
       \A io \in AnswersTo(h[1], h[2], args) : AuthCallbackWith(h[1], h[2], args, io)
        => /\ last'.result = (IF args.error THEN "False" ELSE MismatchError)
           /\ ~last'.exchanged
           /\ accounts' = accounts
           /\ external_accounts' = external_accounts]_vars

\* a callback was refused for its value while accounts exist and the handshake
\* is still pending
C1_Witness ==
    /\ last.op = "auth_callback" /\ last.result = MismatchError
    /\ Len(accounts) > 0
    /\ Pending(<<"u1", "box">>)

\* C2: when a handshake is pending (auth_url was called) and the callback
\* carries the pending value and the exchange succeeds (the token request is
\* made and answered with a token, and the provider's handle_callback hook
\* returns the identity), then afterwards there is an ExternalAccount of that
\* identity among the user's accounts whose oauth_key is the exchanged token
\* and whose refresh_token and expires_at are the response's (None when the
\* response has none), and no handshake is pending for that user and provider.
C2_EndToEndSuccess ==
    [][\A h \in Handshakes : Pending(h) =>
       \A args \in CallbackArgs : ~Differs(h, args) =>
       \A io \in ProviderAnswers(h[2], now) :
        (/\ io.exchange = "ok" /\ io.hook = "ok"
         /\ (h[2] = "box" => "refresh_token" \in DOMAIN io.data)
         /\ AuthCallbackWith(h[1], h[2], args, io)
         /\ last'.exchanged)
        => /\ last'.result = "True"
           /\ \E i \in DOMAIN accounts' :
                /\ accounts'[i].provider = h[2]
                /\ accounts'[i].provider_id = io.about.id
                /\ accounts'[i].oauth_key = ExchangedToken(h[2], io.data)
                /\ accounts'[i].refresh_token =
                      (IF "refresh_token" \in DOMAIN io.data
                       THEN io.data.refresh_token ELSE None)
                /\ accounts'[i].expires_at =
                      (IF "expires_at" \in DOMAIN io.data
                       THEN io.data.expires_at ELSE NoTime)
                /\ i \in external_accounts'[h[1]]
           /\ h[2] \notin DOMAIN oauth_states'[h[1]]]_vars

\* u1's Box handshake succeeded: the account holds the token, the refresh
\* token and an expiry, and nothing is pending
C2_Witness ==
    /\ last.op = "auth_callback" /\ last.result = "True"
    /\ ~Pending(<<"u1", "box">>)
    /\ \E i \in external_accounts["u1"] :
        /\ accounts[i].provider = "box"
        /\ accounts[i].oauth_key = "T2"
        /\ accounts[i].refresh_token = "R1"
        /\ accounts[i].expires_at # NoTime

\* C3 as stated: a callback for a user and provider with no pending handshake
\* fails with the not-recognized error, asks the provider for no token and
\* leaves the ExternalAccount table as it was.
C3_AsStated ==
    [][\A h \in Handshakes : ~Pending(h) =>
       \A args \in CallbackArgs :
       \A io \in AnswersTo(h[1], h[2], args) : AuthCallbackWith(h[1], h[2], args, io)
        => /\ last'.result = NotRecognizedError
           /\ ~last'.exchanged
           /\ accounts' = accounts]_vars

\* C3 amended: a callback for a user and provider with no pending handshake
\* asks the provider for no token and leaves the ExternalAccount table and
\* every user's accounts as they were; it fails with the not-recognized error,
\* unless the callback carries an `error` parameter: then it returns False
\* without looking for the handshake.
C3_NotRecognized ==
    [][\A h \in Handshakes : ~Pending(h) =>
       \A args \in CallbackArgs :
       \A io \in AnswersTo(h[1], h[2], args) : AuthCallbackWith(h[1], h[2], args, io)
        => /\ last'.result = (IF args.error THEN "False" ELSE NotRecognizedError)
           /\ ~last'.exchanged
           /\ accounts' = accounts
           /\ external_accounts' = external_accounts]_vars

\* a callback was not recognized while accounts exist: u1 completed a Box
\* handshake before, and none is pending
C3_Witness ==
    /\ last.op = "auth_callback" /\ last.result = NotRecognizedError
    /\ external_accounts["u1"] # {}
    /\ oauth_states["u1"] = EmptyMap

(***************************************************************************)
(* BaseOAuthUserSettings: the grant ledger                                 *)
(***************************************************************************)
\* the grant recorded without asking whose account it is
grant_oauth_access_Unchecked(grants, owned, n, a, metadata) ==
    LET g1 == IF n \notin DOMAIN grants THEN Put(grants, n, EmptyMap) ELSE grants
    IN [raised |-> None, oauth_grants |-> Put(g1, n, Put(g1[n], a, metadata))]

\* the metadata assigned instead of updated
grant_oauth_access_Overwrite(grants, owned, n, a, metadata) ==
    IF a \notin owned
    THEN [raised |-> "PermissionsError", oauth_grants |-> grants]
    ELSE LET g1 == IF n \notin DOMAIN grants THEN Put(grants, n, EmptyMap) ELSE grants
         IN [raised |-> None, oauth_grants |-> Put(g1, n, Put(g1[n], a, metadata))]

\* grant_oauth_access: what it raises (None when it returns) and the ledger after
grant_oauth_access(grants, owned, n, a, metadata) ==
    IF a \notin owned
    THEN [raised |-> "PermissionsError", oauth_grants |-> grants]
    ELSE LET g1 == IF n \notin DOMAIN grants THEN Put(grants, n, EmptyMap) ELSE grants
             g2 == IF a \notin DOMAIN g1[n] THEN Put(g1, n, Put(g1[n], a, EmptyMap)) ELSE g1
             g3 == Put(g2, n, Put(g2[n], a, Update(g2[n][a], metadata)))
         IN [raised |-> None, oauth_grants |-> g3]

\* the required keys looked for, their values not compared
verify_oauth_access_KeysOnly(grants, n, a, metadata) ==
    IF n \notin DOMAIN grants \/ a \notin DOMAIN grants[n]
    THEN FALSE
    ELSE \A key \in DOMAIN metadata : key \in DOMAIN grants[n][a]

\* verify_oauth_access
verify_oauth_access(grants, n, a, metadata) ==
    IF n \notin DOMAIN grants \/ a \notin DOMAIN grants[n]
    THEN FALSE
    ELSE \A key \in DOMAIN metadata :
            ~(key \notin DOMAIN grants[n][a] \/ grants[n][a][key] # metadata[key])

\* every node of the ledger yielded, whichever accounts it grants
get_nodes_with_oauth_grants_AnyAccount(grants, a, deleted) ==
    {n \in DOMAIN grants : ~deleted[n]}

\* get_nodes_with_oauth_grants: the nodes the generator yields
get_nodes_with_oauth_grants(grants, a, deleted) ==
    {n \in DOMAIN grants : a \in DOMAIN grants[n] /\ ~deleted[n]}

\* lines 976-977 of revoke_oauth_access: pop the account from every node's entry
pop_grants(grants, a) == [n \in DOMAIN grants |-> Del(grants[n], a)]

\* lines 969-972: only this user is using the account
only_user(owners, u, a) ==
    /\ Cardinality({w \in DOMAIN owners : a \in owners[w]}) = 1
    /\ a \in owners[u]

\* the ledger saved before the settings
RevokeOrder_PopFirst == <<"pop", "deauthorize">>

\* the writes of revoke_oauth_access in the order of lines 960-979:
\* "deauthorize" saves the settings of each node with a grant, one by one;
\* "pop" saves the ledger
RevokeOrder == <<"deauthorize", "pop">>

\* `for k, v in meta` iterates the keys of a dict and unpacks each key, a
\* string, into two: this is the key as a sequence of characters
Chars(key) ==
    IF key = "folder" THEN <<"f", "o", "l", "d", "e", "r">>
    ELSE IF key = "id" THEN <<"i", "d">>
    ELSE <<key>>

\* lines 1054-1056 of merge, for one entry present in both: a ValueError unless
\* every key of meta has two characters, which are then taken as (k, v)
merge_meta_raises(meta) == \E key \in DOMAIN meta : Len(Chars(key)) # 2

merge_meta(mine, meta) ==
    LET ks == {Chars(key)[1] : key \in DOMAIN meta}
        val(k) == Chars(CHOOSE key \in DOMAIN meta : Chars(key)[1] = k)[2]
    IN [k \in DOMAIN mine \cup ks |-> IF k \in DOMAIN mine THEN mine[k] ELSE val(k)]

\* lines 1049-1056 of merge, for one node present in both
merge_node(mine, theirs) ==
    [a \in DOMAIN mine \cup DOMAIN theirs |->
        IF a \notin DOMAIN mine THEN theirs[a]
        ELSE IF a \notin DOMAIN theirs THEN mine[a]
        ELSE merge_meta(mine[a], theirs[a])]

\* merge, lines 1045-1056: whether the loop raises, and self.oauth_grants after it
merge_raises(mine, theirs) ==
    \E n \in DOMAIN mine \cap DOMAIN theirs :
        \E a \in DOMAIN mine[n] \cap DOMAIN theirs[n] : merge_meta_raises(theirs[n][a])

\* the ledger merged into left as it was
merge_grants_MineOnly(mine, theirs) == mine

merge_grants(mine, theirs) ==
    [n \in DOMAIN mine \cup DOMAIN theirs |->
        IF n \notin DOMAIN mine THEN theirs[n]
        ELSE IF n \notin DOMAIN theirs THEN mine[n]
        ELSE merge_node(mine[n], theirs[n])]

\* the merged user's ledger left as it was
merged_source_Kept(theirs) == theirs

\* line 1058 of merge: user_settings.oauth_grants = {}
merged_source(theirs) == EmptyMap

(***************************************************************************)
(* BaseOAuthNodeSettings / NodeSettings: the binding of a node             *)
(***************************************************************************)
\* a NodeSettings row with every field null (lines 1367-1373, 1628-1633);
\* external_account 0 is None
NewNodeSettings ==
    [external_account |-> 0, user_settings |-> None,
     folder_id |-> None, folder_name |-> None, folder_path |-> None]

\* NodeSettings.clear_settings
clear_settings(ns) ==
    [ns EXCEPT !.folder_id = None, !.folder_name = None, !.folder_path = None]

\* the foreign keys left as they are
clear_auth_Kept(ns) == ns

\* BaseOAuthNodeSettings.clear_auth
clear_auth(ns) == [ns EXCEPT !.external_account = 0, !.user_settings = None]

\* NodeSettings.deauthorize
deauthorize(ns) == clear_auth(clear_settings(ns))

\* NodeSettings.set_folder: the name and the path are the provider's for that id
set_folder(ns, fid) ==
    [ns EXCEPT !.folder_id = fid, !.folder_name = <<"name", fid>>,
               !.folder_path = <<"/", fid>>]

\* BaseOAuthUserSettings.has_auth of user w's settings: the user has an account
\* (every account of the ledger's world is a Box account)
user_has_auth(owners, w) == owners[w] # {}

\* BaseOAuthNodeSettings.has_auth of node n's settings ns
has_auth(ns, n, owners, grants) ==
    /\ ns.user_settings # None
    /\ user_has_auth(owners, ns.user_settings)
    /\ ns.external_account # 0
    /\ verify_oauth_access(grants[ns.user_settings], n, ns.external_account, EmptyMap)

\* BaseOAuthNodeSettings.complete
complete(ns, n, owners, grants) ==
    /\ has_auth(ns, n, owners, grants)
    /\ ns.external_account # 0
    /\ verify_oauth_access(grants[ns.user_settings], n, ns.external_account, EmptyMap)

\* set_auth on settings ns of node n: what it raises, user u's ledger and the
\* settings after it
set_auth(ns, n, a, u, metadata, owners, grants) ==
    LET g == grant_oauth_access(grants[u], owners[u], n, a, metadata)
    IN IF g.raised # None
       THEN [raised |-> g.raised, oauth_grants |-> grants, settings |-> ns]
       ELSE [raised |-> None,
             oauth_grants |-> [grants EXCEPT ![u] = g.oauth_grants],
             settings |-> [ns EXCEPT !.user_settings = u, !.external_account = a]]

\* BaseNodeSettings.after_fork / BaseModel.clone: a copy with every foreign
\* key emptied
clone(ns) == [ns EXCEPT !.external_account = 0, !.user_settings = None]

\* the fork authorized without the metadata of the source's grant
after_fork_NoMetadata(ns, n, f, u, owners, grants) ==
    IF has_auth(ns, n, owners, grants) /\ ns.user_settings = u
    THEN LET r == set_auth(clone(ns), f, ns.external_account, u, EmptyMap, owners, grants)
         IN [copied |-> TRUE, metadata |-> EmptyMap, raised |-> r.raised,
             oauth_grants |-> r.oauth_grants, settings |-> r.settings]
    ELSE [copied |-> FALSE, metadata |-> EmptyMap, raised |-> None,
          oauth_grants |-> grants, settings |-> clear_settings(clone(ns))]

\* the fork authorized whoever forks
after_fork_AnyUser(ns, n, f, u, owners, grants) ==
    IF has_auth(ns, n, owners, grants)
    THEN LET metadata == grants[ns.user_settings][n][ns.external_account]
             r == set_auth(clone(ns), f, ns.external_account, u, metadata, owners, grants)
         IN [copied |-> TRUE, metadata |-> metadata, raised |-> r.raised,
             oauth_grants |-> r.oauth_grants, settings |-> r.settings]
    ELSE [copied |-> FALSE, metadata |-> EmptyMap, raised |-> None,
          oauth_grants |-> grants, settings |-> clear_settings(clone(ns))]

\* BaseOAuthNodeSettings.after_fork of node n's settings ns into node f by user u:
\* the metadata handed on (None when none is), what it raises, the ledgers and
\* the fork's settings after it
after_fork(ns, n, f, u, owners, grants) ==
    IF has_auth(ns, n, owners, grants) /\ ns.user_settings = u
    THEN LET metadata == IF complete(ns, n, owners, grants)
                         THEN grants[u][n][ns.external_account]
                         ELSE EmptyMap
             r == set_auth(clone(ns), f, ns.external_account, u, metadata, owners, grants)
         IN [copied |-> TRUE, metadata |-> metadata, raised |-> r.raised,
             oauth_grants |-> r.oauth_grants, settings |-> r.settings]
    ELSE [copied |-> FALSE, metadata |-> EmptyMap, raised |-> None,
          oauth_grants |-> grants, settings |-> clear_settings(clone(ns))]

\* the authorization removed whoever the removed contributor is
after_remove_contributor_AnyUser(ns, n, removed, grants) ==
    IF ns.user_settings # None
    THEN IF n \in DOMAIN grants[ns.user_settings]
            /\ ns.external_account \in DOMAIN grants[ns.user_settings][n]
         THEN [result |-> "message",
               oauth_grants |-> [grants EXCEPT ![ns.user_settings] =
                                    Put(@, n, Del(@[n], ns.external_account))],
               settings |-> clear_auth(ns)]
         ELSE [result |-> "KeyError", oauth_grants |-> grants, settings |-> ns]
    ELSE [result |-> "None", oauth_grants |-> grants, settings |-> ns]

\* after_remove_contributor of node n's settings ns, user `removed`: what it
\* returns or raises (the pop of lines 1520-1522 is a KeyError when the grant
\* is not there), the ledgers and the settings after it
after_remove_contributor(ns, n, removed, grants) ==
    IF ns.user_settings # None /\ ns.user_settings = removed
    THEN IF n \in DOMAIN grants[removed] /\ ns.external_account \in DOMAIN grants[removed][n]
         THEN [result |-> "message",
               oauth_grants |-> [grants EXCEPT ![removed] =
                                    Put(@, n, Del(@[n], ns.external_account))],
               settings |-> clear_auth(ns)]
         ELSE [result |-> "KeyError", oauth_grants |-> grants, settings |-> ns]
    ELSE [result |-> "None", oauth_grants |-> grants, settings |-> ns]

\* the update of line 1069: settings pointing at user src now point at user dst
repoint(settings, src, dst) ==
    [n \in DOMAIN settings |->
        IF settings[n].user_settings = src
        THEN [settings[n] EXCEPT !.user_settings = dst]
        ELSE settings[n]]

(***************************************************************************)
(* The ledger's inputs                                                     *)
(***************************************************************************)
Nodes == {"n1", "n2"}

FolderIds == {"5"}

\* the dicts with keys among K and values among V
Dicts(K, V) == UNION {[D -> V] : D \in SUBSET K}

\* the metadata the callers of the ledger's world pass: the folder granted
Metadatas == {[folder |-> fid] : fid \in FolderIds}

\* the metadata a caller may pass when the metadata itself is studied; None is
\* the empty dict (`metadata or {}`)
MetaKeys == {"folder", "id"}

MetaValues == {"5", "6"}

AnyMetadatas == Dicts(MetaKeys, MetaValues)

AccountIds == DOMAIN accounts

(***************************************************************************)
(* Actions of the ledger and the bindings. A request on a node is served   *)
(* only while the node is not deleted. Requests are served one at a time:  *)
(* while a revoke_oauth_access call is in progress the others wait.        *)
(***************************************************************************)
Idle == revoking.pc = 0

Returned(op, result) == last' = [op |-> op, result |-> result]

\* the addon is added to node n
AddAddon(n) ==
    /\ Idle /\ ~is_deleted[n] /\ n \notin DOMAIN node_settings
    /\ node_settings' = Put(node_settings, n, NewNodeSettings)
    /\ Returned("add_addon", "None")
    /\ UNCHANGED <<now, in_flight, handshakeVars, oauth_grants, is_deleted, revoking>>

\* user u's settings grant node n the use of account a
GrantOauthAccessWith(u, n, a, metadata) ==
    LET r == grant_oauth_access(oauth_grants[u], external_accounts[u], n, a, metadata)
    IN /\ Idle /\ ~is_deleted[n]
       /\ oauth_grants' = [oauth_grants EXCEPT ![u] = r.oauth_grants]
       /\ last' = [op |-> "grant_oauth_access", result |-> r.raised, metadata |-> metadata]
       /\ UNCHANGED <<now, in_flight, handshakeVars, node_settings, is_deleted, revoking>>

GrantOauthAccess(u, n, a) ==
    \E metadata \in Metadatas : GrantOauthAccessWith(u, n, a, metadata)

\* a caller asks whether node n may use account a
VerifyOauthAccessWith(u, n, a, metadata) ==
    /\ Idle
    /\ last' = [op |-> "verify_oauth_access", metadata |-> metadata,
                result |-> IF verify_oauth_access(oauth_grants[u], n, a, metadata)
                           THEN "True" ELSE "False"]
    /\ UNCHANGED <<now, in_flight, handshakeVars, ledgerVars>>

\* the same two requests, with any metadata
GrantAnyMetadata(u, n, a) ==
    \E metadata \in AnyMetadatas : GrantOauthAccessWith(u, n, a, metadata)

VerifyAnyMetadata(u, n, a) ==
    \E metadata \in AnyMetadatas : VerifyOauthAccessWith(u, n, a, metadata)

\* node n's settings are connected to account a by user u
SetAuthWith(n, a, u, metadata) ==
    /\ Idle /\ ~is_deleted[n] /\ n \in DOMAIN node_settings
    /\ LET r == set_auth(node_settings[n], n, a, u, metadata, external_accounts, oauth_grants)
       IN /\ oauth_grants' = r.oauth_grants
          /\ node_settings' = [node_settings EXCEPT ![n] = r.settings]
          /\ Returned("set_auth", r.raised)
    /\ UNCHANGED <<now, in_flight, handshakeVars, is_deleted, revoking>>

SetAuth(n, a, u) == \E metadata \in Metadatas : SetAuthWith(n, a, u, metadata)

\* a folder is selected for node n; without an account _folder_data raises
SetFolder(n, fid) ==
    /\ Idle /\ ~is_deleted[n] /\ n \in DOMAIN node_settings
    /\ node_settings[n].external_account # 0
    /\ node_settings' = [node_settings EXCEPT ![n] = set_folder(@, fid)]
    /\ Returned("set_folder", "None")
    /\ UNCHANGED <<now, in_flight, handshakeVars, oauth_grants, is_deleted, revoking>>

\* node n's settings are deauthorized
Deauthorize(n) ==
    /\ Idle /\ n \in DOMAIN node_settings
    /\ node_settings' = [node_settings EXCEPT ![n] = deauthorize(@)]
    /\ last' = [op |-> "deauthorize", result |-> "None", node |-> n,
                before |-> node_settings[n]]
    /\ UNCHANGED <<now, in_flight, handshakeVars, oauth_grants, is_deleted, revoking>>

\* user `removed` stops being a contributor of node n
AfterRemoveContributor(n, removed) ==
    /\ Idle /\ ~is_deleted[n] /\ n \in DOMAIN node_settings
    /\ LET r == after_remove_contributor(node_settings[n], n, removed, oauth_grants)
       IN /\ oauth_grants' = r.oauth_grants
          /\ node_settings' = [node_settings EXCEPT ![n] = r.settings]
          /\ Returned("after_remove_contributor", r.result)
    /\ UNCHANGED <<now, in_flight, handshakeVars, is_deleted, revoking>>

\* a node that was just created: no settings, and no ledger knows its id
Fresh(f) ==
    /\ ~is_deleted[f]
    /\ f \notin DOMAIN node_settings
    /\ \A w \in Users : f \notin DOMAIN oauth_grants[w]

\* user u forks node n into the new node f
AfterFork(n, f, u) ==
    /\ Idle /\ ~is_deleted[n] /\ n \in DOMAIN node_settings /\ Fresh(f)
    /\ LET r == after_fork(node_settings[n], n, f, u, external_accounts, oauth_grants)
       IN IF r.raised # None
          THEN /\ Returned("after_fork", r.raised)
               /\ UNCHANGED <<oauth_grants, node_settings>>
          ELSE /\ oauth_grants' = r.oauth_grants
               /\ node_settings' = Put(node_settings, f, r.settings)
               /\ Returned("after_fork", IF r.copied THEN "copied" ELSE "cleared")
    /\ UNCHANGED <<now, in_flight, handshakeVars, is_deleted, revoking>>

\* node n is deleted; NodeSettings.after_delete deauthorizes its settings
DeleteNode(n) ==
    /\ Idle /\ ~is_deleted[n]
    /\ is_deleted' = [is_deleted EXCEPT ![n] = TRUE]
    /\ node_settings' = IF n \in DOMAIN node_settings
                        THEN [node_settings EXCEPT ![n] = deauthorize(@)]
                        ELSE node_settings
    /\ Returned("after_delete", "None")
    /\ UNCHANGED <<now, in_flight, handshakeVars, oauth_grants, revoking>>

\* user src is merged into user dst: dst's settings merge src's
Merge(dst, src) ==
    /\ Idle /\ dst # src
    /\ IF merge_raises(oauth_grants[dst], oauth_grants[src])
       THEN /\ Returned("merge", "ValueError")
            /\ UNCHANGED <<oauth_grants, node_settings>>
       ELSE /\ oauth_grants' = [oauth_grants EXCEPT
                                   ![dst] = merge_grants(oauth_grants[dst], oauth_grants[src]),
                                   ![src] = merged_source(oauth_grants[src])]
            /\ node_settings' = repoint(node_settings, src, dst)
            /\ Returned("merge", "None")
    /\ UNCHANGED <<now, in_flight, handshakeVars, is_deleted, revoking>>

\* user u asks to revoke account a: revoke_oauth_access is entered; todo are
\* the nodes the generator of line 960 is still to yield, granted the nodes
\* whose entries hold the account at that time (those lines 976-977 pop it from)
RevokeBegin(u, a) ==
    /\ Idle
    /\ revoking' = [pc |-> 1, user |-> u, account |-> a, popped |-> FALSE,
                    todo |-> get_nodes_with_oauth_grants(oauth_grants[u], a, is_deleted),
                    granted |-> {n \in DOMAIN oauth_grants[u] : a \in DOMAIN oauth_grants[u][n]}]
    /\ Returned("revoke_oauth_access", "entered")
    /\ UNCHANGED <<now, in_flight, handshakeVars, oauth_grants, node_settings, is_deleted>>

\* whether a phase of the call has work left
Work(rv, phase) == IF phase = "deauthorize" THEN rv.todo # {} ELSE ~rv.popped

\* the phase the call is in: the first of RevokeOrder with work left
Phase(rv) ==
    RevokeOrder[CHOOSE i \in DOMAIN RevokeOrder :
                    /\ Work(rv, RevokeOrder[i])
                    /\ \A j \in 1..(i - 1) : ~Work(rv, RevokeOrder[j])]

\* the call goes on as rv, or returns when rv has no work left
RevokeProgress(rv) ==
    IF \E i \in DOMAIN RevokeOrder : Work(rv, RevokeOrder[i])
    THEN revoking' = rv /\ Returned("revoke_oauth_access", "running")
    ELSE /\ revoking' = [pc |-> 0]
         /\ last' = [op |-> "revoke_oauth_access", result |-> "None", granted |-> rv.granted]

\* lines 960-967: the settings of one more node with a grant are deauthorized
\* and saved (an AttributeError, passed over, when the node has none)
RevokeDeauthorize ==
    /\ ~Idle /\ Phase(revoking) = "deauthorize"
    /\ \E n \in revoking.todo :
        /\ node_settings' = IF n \in DOMAIN node_settings
                            THEN [node_settings EXCEPT ![n] = deauthorize(@)]
                            ELSE node_settings
        /\ RevokeProgress([revoking EXCEPT !.todo = @ \ {n}])
    /\ UNCHANGED <<now, in_flight, handshakeVars, oauth_grants, is_deleted>>

\* lines 969-979: the provider is asked to revoke the token when only this
\* user uses the account; then the account is popped from every node's entry
\* and the ledger saved
RevokePop ==
    /\ ~Idle /\ Phase(revoking) = "pop"
    /\ oauth_grants' = [oauth_grants EXCEPT ![revoking.user] = pop_grants(@, revoking.account)]
    /\ RevokeProgress([revoking EXCEPT !.popped = TRUE])
    /\ UNCHANGED <<now, in_flight, handshakeVars, node_settings, is_deleted>>

\* the call ends between two of its writes: an exception (the logger's, the
\* request's to the provider), or the request is cut off
RevokeAbort ==
    /\ ~Idle
    /\ revoking' = [pc |-> 0]
    /\ Returned("revoke_oauth_access", "raised")
    /\ UNCHANGED <<now, in_flight, handshakeVars, oauth_grants, node_settings, is_deleted>>

(***************************************************************************)
(* revoke_oauth_access as one call, with the provider's answer             *)
(***************************************************************************)
\* what the POST to BOX_OAUTH_REVOKE_ENDPOINT can come to: a response (of
\* any status: raise_for_status is not called) or an exception of requests
RemoteAnswers == {"200", "400", "HTTPError", "ConnectionError", "Timeout"}

\* UserSettings.revoke_remote_oauth_access, lines 1608-1621: what it raises.
\* Only requests.HTTPError is caught; ConnectionError and Timeout are
\* RequestExceptions that are not HTTPErrors
revoke_remote_oauth_access(answer) ==
    IF answer \in {"ConnectionError", "Timeout"} THEN answer ELSE None

\* the account's row deleted with its last grant
revoked_accounts_Deleted(accts, a) == [i \in DOMAIN accts \ {a} |-> accts[i]]

\* the ExternalAccount table after revoke_oauth_access: no line of 953-979
\* or 1608-1621 assigns to the account or deletes it
revoked_accounts(accts, a) == accts

\* the provider asked whoever else uses the account
asks_remote_Always(owners, u, a) == a \in owners[u]

\* lines 969-974: whether the provider is asked to revoke the token. auth is
\* the revoking user's
asks_remote(owners, u, a) == only_user(owners, u, a)

\* revoke_oauth_access of user u's settings for account a, the whole call:
\* what it returns or raises, whether the provider was asked, and the
\* settings, the ledger and the accounts saved
revoke_oauth_access(grants, settings, owners, accts, deleted, u, a, answer) ==
    LET nodes == get_nodes_with_oauth_grants(grants[u], a, deleted)
        deauthorized == [n \in DOMAIN settings |->
                            IF n \in nodes THEN deauthorize(settings[n]) ELSE settings[n]]
        asked == asks_remote(owners, u, a)
        raised == IF asked THEN revoke_remote_oauth_access(answer) ELSE None
    IN [result |-> IF raised # None THEN raised ELSE "None",
        asked |-> asked,
        node_settings |-> deauthorized,
        oauth_grants |-> IF raised # None THEN grants
                         ELSE [grants EXCEPT ![u] = pop_grants(@, a)],
        accounts |-> revoked_accounts(accts, a)]

RevokeOauthAccessWith(u, a, answer) ==
    LET r == revoke_oauth_access(oauth_grants, node_settings, external_accounts, accounts,
                                 is_deleted, u, a, answer)
    IN /\ Idle
       /\ node_settings' = r.node_settings
       /\ oauth_grants' = r.oauth_grants
       /\ accounts' = r.accounts
       /\ last' = [op |-> "revoke_oauth_access", result |-> r.result, asked |-> r.asked,
                   answer |-> IF r.asked THEN answer ELSE "none", user |-> u, account |-> a]
       /\ UNCHANGED <<now, in_flight, oauth_states, external_accounts, is_deleted, revoking>>

\* a call that does not ask the provider has no answer to wait for
RemoteAnswersTo(u, a) ==
    IF asks_remote(external_accounts, u, a) THEN RemoteAnswers ELSE {"200"}

RevokeOauthAccess(u, a) ==
    \E answer \in RemoteAnswersTo(u, a) : RevokeOauthAccessWith(u, a, answer)

(***************************************************************************)
(* Calls on instances loaded by concurrent requests                        *)
(***************************************************************************)
\* the requests served at the same time
Requests == {1, 2}

\* what a request asks of user u1's settings: a grant (the first half of
\* set_auth) or a revoke
LedgerCalls ==
    {[op |-> "grant_oauth_access", node |-> n, account |-> 1, metadata |-> md] :
        n \in Nodes, md \in Metadatas}
    \cup {[op |-> "revoke_oauth_access", node |-> None, account |-> 1,
            metadata |-> EmptyMap]}

\* BaseModel.load without select_for_update (user.get_or_add_addon in
\* set_auth): request r gets its own instance of user u's settings, with
\* the oauth_grants the row holds now
LoadUserSettings(r, u, call) ==
    /\ r \notin DOMAIN in_flight
    /\ in_flight' = Put(in_flight, r, [pc |-> "loaded", call |-> call, user |-> u,
                                       oauth_grants |-> oauth_grants[u]])
    /\ Returned("load", "None")
    /\ UNCHANGED <<now, handshakeVars, ledgerVars>>

\* grant_oauth_access on request r's instance: the entry is made in the
\* instance's oauth_grants and the instance saved over the row
GrantOnInstance(r) ==
    /\ r \in DOMAIN in_flight
    /\ in_flight[r].pc = "loaded"
    /\ in_flight[r].call.op = "grant_oauth_access"
    /\ LET q == in_flight[r]
           g == grant_oauth_access(q.oauth_grants, external_accounts[q.user],
                                   q.call.node, q.call.account, q.call.metadata)
       IN /\ oauth_grants' = IF g.raised # None THEN oauth_grants
                             ELSE [oauth_grants EXCEPT ![q.user] = g.oauth_grants]
          /\ in_flight' = [in_flight EXCEPT ![r].pc =
                                IF g.raised # None THEN "raised" ELSE "saved"]
          /\ Returned("grant_oauth_access", g.raised)
    /\ UNCHANGED <<now, handshakeVars, node_settings, is_deleted, revoking>>

\* revoke_oauth_access on request r's instance: the nodes of the instance's
\* oauth_grants are deauthorized, the account popped from the instance's
\* oauth_grants and the instance saved over the row
RevokeOnInstance(r) ==
    /\ r \in DOMAIN in_flight
    /\ in_flight[r].pc = "loaded"
    /\ in_flight[r].call.op = "revoke_oauth_access"
    /\ LET q == in_flight[r]
           v == revoke_oauth_access([oauth_grants EXCEPT ![q.user] = q.oauth_grants],
                                    node_settings, external_accounts, accounts,
                                    is_deleted, q.user, q.call.account, "200")
       IN /\ oauth_grants' = [oauth_grants EXCEPT ![q.user] = v.oauth_grants[q.user]]
          /\ node_settings' = v.node_settings
          /\ in_flight' = [in_flight EXCEPT ![r].pc = "saved"]
          /\ Returned("revoke_oauth_access", v.result)
    /\ UNCHANGED <<now, handshakeVars, is_deleted, revoking>>

\* merge, lines 1040-1056: request r has merged user src's oauth_grants into
\* the instance of user dst's settings, in memory; nothing is saved yet
MergeInMemory(r, dst, src) ==
    /\ r \notin DOMAIN in_flight
    /\ dst # src
    /\ IF merge_raises(oauth_grants[dst], oauth_grants[src])
       THEN /\ in_flight' = Put(in_flight, r, [pc |-> "raised", dst |-> dst, src |-> src])
            /\ Returned("merge", "ValueError")
       ELSE /\ in_flight' = Put(in_flight, r,
                    [pc |-> "merged", dst |-> dst, src |-> src,
                     oauth_grants |-> merge_grants(oauth_grants[dst], oauth_grants[src])])
            /\ Returned("merge", "running")
    /\ UNCHANGED <<now, handshakeVars, ledgerVars>>

\* lines 1058-1059: the source's oauth_grants are emptied and saved
MergeSaveSource(r) ==
    /\ r \in DOMAIN in_flight
    /\ in_flight[r].pc = "merged"
    /\ oauth_grants' = [oauth_grants EXCEPT
                            ![in_flight[r].src] = merged_source(oauth_grants[in_flight[r].src])]
    /\ in_flight' = [in_flight EXCEPT ![r].pc = "source saved"]
    /\ Returned("merge", "running")
    /\ UNCHANGED <<now, handshakeVars, node_settings, is_deleted, revoking>>

\* lines 1061-1069: the node settings of the source are updated to reference
\* this instance
MergeRepoint(r) ==
    /\ r \in DOMAIN in_flight
    /\ in_flight[r].pc = "source saved"
    /\ node_settings' = repoint(node_settings, in_flight[r].src, in_flight[r].dst)
    /\ in_flight' = [in_flight EXCEPT ![r].pc = "repointed"]
    /\ Returned("merge", "running")
    /\ UNCHANGED <<now, handshakeVars, oauth_grants, is_deleted, revoking>>

\* line 1071: this instance is saved, and merge returns
MergeSaveSelf(r) ==
    /\ r \in DOMAIN in_flight
    /\ in_flight[r].pc = "repointed"
    /\ oauth_grants' = [oauth_grants EXCEPT ![in_flight[r].dst] = in_flight[r].oauth_grants]
    /\ in_flight' = [in_flight EXCEPT ![r].pc = "returned"]
    /\ Returned("merge", "None")
    /\ UNCHANGED <<now, handshakeVars, node_settings, is_deleted, revoking>>

\* the grant made in memory and never saved
set_auth_grant_NotSaved(grants, owned, n, a, metadata) ==
    [raised |-> grant_oauth_access(grants, owned, n, a, metadata).raised,
     oauth_grants |-> grants]

\* set_auth, lines 1463-1468: the user's settings grant the node the account
\* and are saved; what is raised and the user's saved ledger after it
set_auth_grant(grants, owned, n, a, metadata) ==
    grant_oauth_access(grants, owned, n, a, metadata)

\* request r calls set_auth(account a, user u) on node n's settings, up to
\* user_settings.save(); a PermissionsError ends the request
SetAuthGrantWith(r, n, a, u, metadata) ==
    /\ r \notin DOMAIN in_flight
    /\ Idle /\ ~is_deleted[n] /\ n \in DOMAIN node_settings
    /\ LET g == set_auth_grant(oauth_grants[u], external_accounts[u], n, a, metadata)
       IN IF g.raised # None
          THEN /\ Returned("set_auth", g.raised)
               /\ UNCHANGED <<oauth_grants, in_flight>>
          ELSE /\ oauth_grants' = [oauth_grants EXCEPT ![u] = g.oauth_grants]
               /\ in_flight' = Put(in_flight, r,
                       [pc |-> "granted", node |-> n, account |-> a, user |-> u])
               /\ Returned("set_auth", "running")
    /\ UNCHANGED <<now, handshakeVars, node_settings, is_deleted, revoking>>

SetAuthGrant(r, n, a, u) ==
    \E metadata \in Metadatas : SetAuthGrantWith(r, n, a, u, metadata)

\* set_auth, lines 1471-1476: the node settings reference the user's settings
\* and the account and are saved, and set_auth returns
SetAuthBind(r) ==
    /\ r \in DOMAIN in_flight
    /\ in_flight[r].pc = "granted"
    /\ node_settings' = [node_settings EXCEPT ![in_flight[r].node] =
                             [@ EXCEPT !.user_settings = in_flight[r].user,
                                       !.external_account = in_flight[r].account]]
    /\ in_flight' = [x \in DOMAIN in_flight \ {r} |-> in_flight[x]]
    /\ Returned("set_auth", "None")
    /\ UNCHANGED <<now, handshakeVars, oauth_grants, is_deleted, revoking>>

\* Box's Provider: auto_refresh_url, client_id and client_secret are set;
\* REFRESH_TIME and EXPIRY_TIME in the clock's units
BoxConfig ==
    [auto_refresh_url |-> TRUE, client |-> TRUE, refresh_time |-> 2, expiry_time |-> 1]

\* the requests whose refresh has asked the provider
Called == {r \in DOMAIN in_flight : in_flight[r].pc \in {"called", "saved"}}

\* the token the provider answers its k-th refresh request with: each
\* answer rotates the refresh token
RotatedToken(k) ==
    [access_token |-> <<"T", k>>, refresh_token |-> <<"R", k>>, expires_in |-> 1]

\* serialize_waterbutler_credentials, line 1772: request r reads the node
\* settings' external_account, its own instance of row i
LoadAccount(r, i) ==
    /\ r \notin DOMAIN in_flight
    /\ in_flight' = Put(in_flight, r, [pc |-> "loaded", account |-> i, row |-> accounts[i]])
    /\ Returned("load", "None")
    /\ UNCHANGED <<now, handshakeVars, ledgerVars>>

\* refresh_oauth_key() on request r's instance up to line 626: the checks,
\* and the request to the provider when none of them returns
RefreshOnInstance(r) ==
    /\ r \in DOMAIN in_flight
    /\ in_flight[r].pc = "loaded"
    /\ IF short_circuits(in_flight[r].row, BoxConfig, FALSE, now)
       THEN /\ in_flight' = [in_flight EXCEPT ![r].pc = "returned"]
            /\ Returned("refresh_oauth_key", "False")
       ELSE /\ in_flight' = [in_flight EXCEPT ![r] =
                    [pc |-> "called", account |-> @.account, row |-> @.row,
                     token |-> RotatedToken(Cardinality(Called) + 1)]]
            /\ Returned("refresh_oauth_key", "called")
    /\ UNCHANGED <<now, handshakeVars, ledgerVars>>

\* lines 632-638 on request r's instance: the token's fields are assigned
\* and the instance saved over the row
SaveRefreshed(r) ==
    /\ r \in DOMAIN in_flight
    /\ in_flight[r].pc = "called"
    /\ LET q == in_flight[r]
       IN accounts' = [accounts EXCEPT ![q.account] =
                [q.row EXCEPT !.oauth_key = q.token["access_token"],
                              !.refresh_token = q.token["refresh_token"],
                              !.expires_at = now + q.token["expires_in"],
                              !.date_last_refreshed = now]]
    /\ in_flight' = [in_flight EXCEPT ![r].pc = "saved"]
    /\ Returned("refresh_oauth_key", "True")
    /\ UNCHANGED <<now, oauth_states, external_accounts, ledgerVars>>

(***************************************************************************)
(* Specifications                                                          *)
(***************************************************************************)
\* the handshake, from an empty database
InitHandshake ==
    /\ now = 0
    /\ oauth_states = [u \in Users |-> EmptyMap]
    /\ accounts = << >>
    /\ external_accounts = [u \in Users |-> {}]
    /\ oauth_grants = [u \in Users |-> EmptyMap]
    /\ node_settings = EmptyMap
    /\ is_deleted = [n \in Nodes |-> FALSE]
    /\ revoking = [pc |-> 0]
    /\ in_flight = EmptyMap
    /\ last = [op |-> "init", result |-> "None"]

NextHandshake ==
    \/ \E h \in Handshakes : AuthUrl(h[1], h[2])
    \/ \E h \in Handshakes : AuthCallback(h[1], h[2])

SpecHandshake == InitHandshake /\ [][NextHandshake]_vars

\* user u1's Box callbacks storing accounts, from an empty database
NextUpsert ==
    \/ SetExternalAccount("u1", "box")
    \/ Tick

SpecUpsert == InitHandshake /\ [][NextUpsert]_vars

\* The info of a completed Box handshake as remote identity pid
BoxInfo(pid) ==
    Update(default_handle_callback("box", [access_token |-> "T1", refresh_token |-> "R1"]),
           handle_callback("box", [access_token |-> "T1", refresh_token |-> "R1"],
                           [id |-> pid, name |-> "d1"]))

\* Who has connected the Box account: both users, or u1 alone
Ownerships ==
    {[u \in Users |-> {1}],
     [u \in Users |-> IF u = "u1" THEN {1} ELSE {}]}

\* the ledger, after the Box identity r1 was connected: account 1
Init ==
    /\ now = 0
    /\ oauth_states = [u \in Users |-> EmptyMap]
    /\ accounts = set_external_account(<< >>, {}, EmptyMap, "box", BoxInfo("r1"), 0).accounts
    /\ external_accounts \in Ownerships
    /\ oauth_grants = [u \in Users |-> EmptyMap]
    /\ node_settings = EmptyMap
    /\ is_deleted = [n \in Nodes |-> FALSE]
    /\ revoking = [pc |-> 0]
    /\ in_flight = EmptyMap
    /\ last = [op |-> "init", result |-> "None"]

Next ==
    \/ \E n \in Nodes : AddAddon(n)
    \/ \E u \in Users, n \in Nodes, a \in AccountIds : GrantOauthAccess(u, n, a)
    \/ \E n \in Nodes, a \in AccountIds, u \in Users : SetAuth(n, a, u)
    \/ \E n \in Nodes, fid \in FolderIds : SetFolder(n, fid)
    \/ \E n \in Nodes : Deauthorize(n)
    \/ \E n \in Nodes, removed \in Users : AfterRemoveContributor(n, removed)
    \/ \E n \in Nodes, f \in Nodes, u \in Users : AfterFork(n, f, u)
    \/ \E n \in Nodes : DeleteNode(n)
    \/ \E dst \in Users, src \in Users : Merge(dst, src)
    \/ \E u \in Users, a \in AccountIds : RevokeBegin(u, a)
    \/ RevokeDeauthorize
    \/ RevokePop
    \/ RevokeAbort

Spec == Init /\ [][Next]_vars

\* the metadata of the grants: user u1's ledger under grants and questions
\* with any metadata
NextMeta ==
    \/ \E n \in Nodes, a \in AccountIds : GrantAnyMetadata("u1", n, a)
    \/ \E n \in Nodes, a \in AccountIds : VerifyAnyMetadata("u1", n, a)

SpecMeta == Init /\ [][NextMeta]_vars

\* the merge of two users' settings: both ledgers under grants (with any
\* metadata for node n1), and either user merged into the other
NextMerge ==
    \/ \E u \in Users, a \in AccountIds : GrantAnyMetadata(u, "n1", a)
    \/ \E u \in Users, a \in AccountIds : GrantOauthAccess(u, "n2", a)
    \/ \E dst \in Users, src \in Users : Merge(dst, src)

SpecMerge == Init /\ [][NextMerge]_vars

\* the Box account of identity r1, stored by a callback whose token response
\* had no expiry or one that ran out at some time of the clock
InitRefresh ==
    /\ now = 0
    /\ oauth_states = [u \in Users |-> EmptyMap]
    /\ \E e \in {NoTime} \cup 0..MaxTime :
        accounts = set_external_account(<< >>, {}, EmptyMap, "box",
                        IF e = NoTime THEN BoxInfo("r1")
                        ELSE Put(BoxInfo("r1"), "expires_at", e), 0).accounts
    /\ external_accounts = [u \in Users |-> IF u = "u1" THEN {1} ELSE {}]
    /\ oauth_grants = [u \in Users |-> EmptyMap]
    /\ node_settings = EmptyMap
    /\ is_deleted = [n \in Nodes |-> FALSE]
    /\ revoking = [pc |-> 0]
    /\ in_flight = EmptyMap
    /\ last = [op |-> "init", result |-> "None"]

NextRefresh ==
    \/ \E i \in AccountIds, w \in Windows : NeedsRefreshWith(i, w)
    \/ \E i \in AccountIds, w \in Windows : HasExpiredCredentialsWith(i, w)
    \/ \E i \in AccountIds : RefreshOauthKey(i)
    \/ Tick

SpecRefresh == InitRefresh /\ [][NextRefresh]_vars

\* the ledger and the bindings under whole calls of revoke_oauth_access
NextRevoke ==
    \/ \E n \in Nodes : AddAddon(n)
    \/ \E u \in Users, n \in Nodes, a \in AccountIds : GrantOauthAccess(u, n, a)
    \/ \E n \in Nodes, a \in AccountIds, u \in Users : SetAuth(n, a, u)
    \/ \E n \in Nodes : Deauthorize(n)
    \/ \E n \in Nodes, f \in Nodes, u \in Users : AfterFork(n, f, u)
    \/ \E dst \in Users, src \in Users : Merge(dst, src)
    \/ \E u \in Users, a \in AccountIds : RevokeOauthAccess(u, a)

SpecRevoke == Init /\ [][NextRevoke]_vars

\* requests that load user u1's settings and call them, in any interleaving
NextRace ==
    \/ \E n \in Nodes : AddAddon(n)
    \/ \E r \in Requests, call \in LedgerCalls : LoadUserSettings(r, "u1", call)
    \/ \E r \in Requests : GrantOnInstance(r)
    \/ \E r \in Requests : RevokeOnInstance(r)

SpecRace == Init /\ [][NextRace]_vars

\* one merge, write by write, after nodes were authorized
NextMergeWrites ==
    \/ \E n \in Nodes : in_flight = EmptyMap /\ AddAddon(n)
    \/ \E n \in Nodes, a \in AccountIds, u \in Users :
            in_flight = EmptyMap /\ SetAuth(n, a, u)
    \/ \E n \in Nodes : in_flight = EmptyMap /\ Deauthorize(n)
    \/ \E dst \in Users, src \in Users : MergeInMemory(1, dst, src)
    \/ MergeSaveSource(1)
    \/ MergeRepoint(1)
    \/ MergeSaveSelf(1)

SpecMergeWrites == Init /\ [][NextMergeWrites]_vars

\* set_auth write by write, two requests in any interleaving, among calls
\* on node settings that are one write each
NextSetAuthWrites ==
    \/ \E n \in Nodes : AddAddon(n)
    \/ \E n \in Nodes, fid \in FolderIds : SetFolder(n, fid)
    \/ \E n \in Nodes : Deauthorize(n)
    \/ \E r \in Requests, n \in Nodes, a \in AccountIds, u \in Users :
            SetAuthGrant(r, n, a, u)
    \/ \E r \in Requests : SetAuthBind(r)

SpecSetAuthWrites == Init /\ [][NextSetAuthWrites]_vars

\* requests for the credentials of the same account, in any interleaving
NextRefreshRace ==
    \/ \E r \in Requests, i \in AccountIds : LoadAccount(r, i)
    \/ \E r \in Requests : RefreshOnInstance(r)
    \/ \E r \in Requests : SaveRefreshed(r)
    \/ Tick

SpecRefreshRace == InitRefresh /\ [][NextRefreshRace]_vars

(***************************************************************************)
(* Properties of the ledger and the bindings (Spec, SpecMeta)              *)
(***************************************************************************)
\* user u's ledger has an entry for node n and account a
HasGrant(grants, u, n, a) == n \in DOMAIN grants[u] /\ a \in DOMAIN grants[u][n]

\* the metadata user u's ledger stores for node n and account a
Stored(grants, u, n, a) == IF HasGrant(grants, u, n, a) THEN grants[u][n][a] ELSE EmptyMap

\* C4: a grant_oauth_access call for an account that is not among the
\* caller's own accounts raises PermissionsError and leaves every ledger as
\* it was: no node entry and no account entry is created.
C4_GrantNotOwned ==
    [][\A u \in Users, n \in Nodes, a \in AccountIds, metadata \in Metadatas :
        (a \notin external_accounts[u] /\ GrantOauthAccessWith(u, n, a, metadata))
        => /\ last'.result = "PermissionsError"
           /\ oauth_grants' = oauth_grants]_vars

\* u2, who does not own account 1, was refused a grant and its ledger is empty
C4_Witness ==
    /\ last.op = "grant_oauth_access" /\ last.result = "PermissionsError"
    /\ 1 \notin external_accounts["u2"]
    /\ oauth_grants["u2"] = EmptyMap

\* C5: every successful grant call leaves, for its node and account, the
\* metadata stored before it (empty when there was no entry) overridden key
\* by key by the call's metadata: a key of the call holds the call's value,
\* every other key keeps its earlier value, and no other key appears. So after
\* any sequence of grants each key holds the value of the latest grant that
\* supplied it.
C5_GrantAdditivity ==
    [][\A n \in Nodes, a \in AccountIds, metadata \in AnyMetadatas :
        (GrantOauthAccessWith("u1", n, a, metadata) /\ last'.result = None)
        => LET before == Stored(oauth_grants, "u1", n, a)
               after  == Stored(oauth_grants', "u1", n, a)
           IN /\ HasGrant(oauth_grants', "u1", n, a)
              /\ DOMAIN after = DOMAIN before \cup DOMAIN metadata
              /\ \A k \in DOMAIN after :
                    after[k] = IF k \in DOMAIN metadata THEN metadata[k] ELSE before[k]]_vars

\* a grant of {id: "6"} after one of {folder: "5"}: both are stored
C5_Witness ==
    /\ last.op = "grant_oauth_access" /\ last.result = None
    /\ last.metadata = [id |-> "6"]
    /\ Stored(oauth_grants, "u1", "n1", 1) = [folder |-> "5", id |-> "6"]

\* C6: verify_oauth_access answers True exactly when the ledger has an entry
\* for the node and the account and every key of the required metadata is in
\* the stored metadata with an equal value; with no required metadata, exactly
\* when the entry exists.
C6_VerifyScoping ==
    [][\A n \in Nodes, a \in AccountIds, metadata \in AnyMetadatas :
        VerifyOauthAccessWith("u1", n, a, metadata)
        => ((last'.result = "True") <=>
               /\ HasGrant(oauth_grants, "u1", n, a)
               /\ \A k \in DOMAIN metadata :
                    /\ k \in DOMAIN oauth_grants["u1"][n][a]
                    /\ oauth_grants["u1"][n][a][k] = metadata[k])]_vars

\* after a grant of {folder: "5"}, the question with {folder: "6"} was
\* answered False
C6_Witness ==
    /\ last.op = "verify_oauth_access" /\ last.result = "False"
    /\ last.metadata = [folder |-> "6"]
    /\ \E n \in Nodes : Stored(oauth_grants, "u1", n, 1) = [folder |-> "5"]

\* the nodes for which the revoking user's ledger grants the account revoked
GrantedNodes == {n \in Nodes : HasGrant(oauth_grants, revoking.user, n, revoking.account)}

BindingHasGrant(n) ==
    node_settings[n].external_account # 0
    => /\ node_settings[n].user_settings # None
       /\ HasGrant(oauth_grants, node_settings[n].user_settings, n,
                   node_settings[n].external_account)

\* C8: whenever no call is in progress (after any sequence of set_auth,
\* deauthorize, revoke, merge, fork, contributor removal and node deletion),
\* every node's settings that reference an account have the grant for that
\* node and account in the ledger of the user who authorized them.
C8_BindingImpliesGrant ==
    Idle => \A n \in DOMAIN node_settings : BindingHasGrant(n)

\* after a merge of u1 into u2, a node's settings that u1 authorized
\* reference u2's settings, whose ledger now holds the grant
C8_Witness ==
    /\ Idle
    /\ last.op = "merge" /\ last.result = "None"
    /\ 1 \notin external_accounts["u2"]
    /\ \E n \in DOMAIN node_settings :
        /\ node_settings[n].external_account = 1
        /\ node_settings[n].user_settings = "u2"
        /\ HasGrant(oauth_grants, "u2", n, 1)

\* C9: every write of a revoke_oauth_access call, and its abort between two
\* of them, leaves every node's settings that reference an account with the
\* grant for it in the ledger of the user who authorized them (the settings
\* are deauthorized before the ledger is touched); and each step either
\* leaves every ledger as it was or leaves the revoking user's ledger with no
\* entry for the account: its entries are removed all at once or not at all.
C9_RevokeNotPartial ==
    [][~Idle =>
        /\ \A n \in DOMAIN node_settings' :
            node_settings'[n].external_account # 0
            => /\ node_settings'[n].user_settings # None
               /\ HasGrant(oauth_grants', node_settings'[n].user_settings, n,
                           node_settings'[n].external_account)
        /\ \/ oauth_grants' = oauth_grants
           \/ /\ \A n \in Nodes :
                    ~HasGrant(oauth_grants', revoking.user, n, revoking.account)
              /\ \A w \in Users \ {revoking.user} : oauth_grants'[w] = oauth_grants[w]]_vars

\* a revoke call was aborted after it deauthorized a node's settings: the
\* grants are all still there
C9_Witness ==
    /\ last.op = "revoke_oauth_access" /\ last.result = "raised"
    /\ \A n \in Nodes : HasGrant(oauth_grants, "u1", n, 1) /\ ~is_deleted[n]
    /\ \E n \in DOMAIN node_settings : node_settings[n].external_account = 0
    /\ \E n \in DOMAIN node_settings :
        node_settings[n].external_account = 1 /\ node_settings[n].user_settings = "u1"

\* C10: when the user who forks is not the one whose user settings authorized
\* the source node's settings, after_fork hands on no metadata, the fork's
\* settings reference no account and no user settings and have no folder, and
\* every ledger is as it was, even though the grant for the source node
\* exists; metadata is handed on (and granted to the fork) only when the
\* forking user is the one who authorized the source.
C10_ForkAuthorization ==
    [][\A n \in Nodes, f \in Nodes, u \in Users :
        AfterFork(n, f, u)
        => /\ node_settings[n].user_settings # u
                => /\ last'.result = "cleared"
                   /\ node_settings'[f].external_account = 0
                   /\ node_settings'[f].user_settings = None
                   /\ node_settings'[f].folder_id = None
                   /\ node_settings'[f].folder_name = None
                   /\ node_settings'[f].folder_path = None
                   /\ oauth_grants' = oauth_grants
           /\ last'.result = "copied" => node_settings[n].user_settings = u]_vars

\* u1 authorized a node with a folder and holds its grant; the node was
\* forked by someone else: the fork has settings without account or folder
\* and no ledger knows it
C10_Witness ==
    /\ last.op = "after_fork" /\ last.result = "cleared"
    /\ \E n \in DOMAIN node_settings, f \in DOMAIN node_settings :
        /\ node_settings[n].user_settings = "u1"
        /\ node_settings[n].external_account = 1
        /\ node_settings[n].folder_id # None
        /\ HasGrant(oauth_grants, "u1", n, 1)
        /\ node_settings[f].external_account = 0
        /\ node_settings[f].folder_id = None
        /\ \A w \in Users : f \notin DOMAIN oauth_grants[w]

\* the (node, account) entries user u's ledger holds
Entries(grants, u) == {e \in Nodes \X AccountIds : HasGrant(grants, u, e[1], e[2])}

\* C11: a merge of user src into user dst whose ledgers both hold an entry for
\* the same node and account returns without error, and dst's metadata for it
\* afterwards keeps dst's value for every key dst had and gains src's value
\* for every key only src had.
C11_MergeConflictPolicy ==
    [][\A dst \in Users, src \in Users :
        (/\ Entries(oauth_grants, dst) \cap Entries(oauth_grants, src) # {}
         /\ Merge(dst, src))
        => /\ last'.result = "None"
           /\ \A e \in Entries(oauth_grants, dst) \cap Entries(oauth_grants, src) :
                LET mine   == oauth_grants[dst][e[1]][e[2]]
                    theirs == oauth_grants[src][e[1]][e[2]]
                    after  == Stored(oauth_grants', dst, e[1], e[2])
                IN /\ DOMAIN after = DOMAIN mine \cup DOMAIN theirs
                   /\ \A k \in DOMAIN after :
                        after[k] = IF k \in DOMAIN mine THEN mine[k] ELSE theirs[k]]_vars

RowOf(accts, p, info) == CHOOSE i \in FindAccount(accts, p, info["provider_id"]) : TRUE

\* C14: no two rows of the ExternalAccount table have the same provider and
\* provider_id; and a _set_external_account call for an identity that has a
\* row, whatever display name it carries, leaves the number of rows as it
\* was and the call's display name in that row.
C14_AccountUniqueness ==
    [][/\ \A i \in DOMAIN accounts', j \in DOMAIN accounts' :
            (/\ accounts'[i].provider = accounts'[j].provider
             /\ accounts'[i].provider_id = accounts'[j].provider_id) => i = j
       /\ \A info \in Infos(now) :
            (/\ FindAccount(accounts, "box", info["provider_id"]) # {}
             /\ SetExternalAccountWith("u1", "box", info))
            => /\ Len(accounts') = Len(accounts)
               /\ accounts'[RowOf(accounts, "box", info)].display_name
                    = info["display_name"]]_vars

\* two identities were stored, and the last call renamed one of them
C14_Witness ==
    /\ last.op = "_set_external_account"
    /\ Len(accounts) = 2
    /\ \E i \in DOMAIN accounts :
        /\ accounts[i].provider_id = last.info["provider_id"]
        /\ accounts[i].display_name = "d2"
        /\ accounts[i].date_last_refreshed > 0
    /\ \E i \in DOMAIN accounts : accounts[i].date_last_refreshed = 0

\* C15 as stated: a _set_external_account call that repeats the call before
\* it (same user, provider and info) leaves the ExternalAccount table, every
\* field of every row, and every user's accounts as the first call left them.
C15_AsStated ==
    [][\A info \in Infos(now) :
        (/\ last.op = "_set_external_account" /\ last.info = info
         /\ SetExternalAccountWith(last.user, last.provider, info))
        => /\ accounts' = accounts
           /\ external_accounts' = external_accounts]_vars

\* C15 amended: a _set_external_account call that repeats the call before it
\* (same user, provider and info) leaves the ExternalAccount table and every
\* user's accounts as the first call left them, except for the row's
\* date_last_refreshed, which is the time of the second call.
C15_UpsertIdempotence ==
    [][\A info \in Infos(now) :
        (/\ last.op = "_set_external_account" /\ last.info = info
         /\ SetExternalAccountWith(last.user, last.provider, info))
        => /\ accounts' = [accounts EXCEPT
                              ![RowOf(accounts, last.provider, info)].date_last_refreshed = now]
           /\ external_accounts' = external_accounts]_vars

\* the same info was stored twice, the second time later than the first
C15_Witness ==
    /\ last.op = "_set_external_account"
    /\ now > 0
    /\ Len(accounts) = 1
    /\ accounts[1].date_last_refreshed = now
    /\ accounts[1].expires_at = 1
    /\ accounts[1].provider_id = last.info["provider_id"]
    /\ "expires_at" \in DOMAIN last.info /\ last.info["expires_at"] = 1

\* C16: a _set_external_account call for an identity that has a row, with an
\* info that has no secret, no refresh_token or no expires_at, leaves the
\* row's oauth_secret, refresh_token or expires_at as it was.
C16_AbsentFieldsKept ==
    [][\A info \in Infos(now) :
        (/\ FindAccount(accounts, "box", info["provider_id"]) # {}
         /\ SetExternalAccountWith("u1", "box", info))
        => LET i == RowOf(accounts, "box", info)
           IN /\ "secret" \notin DOMAIN info
                    => accounts'[i].oauth_secret = accounts[i].oauth_secret
              /\ "refresh_token" \notin DOMAIN info
                    => accounts'[i].refresh_token = accounts[i].refresh_token
              /\ "expires_at" \notin DOMAIN info
                    => accounts'[i].expires_at = accounts[i].expires_at]_vars

(***************************************************************************)
(* Properties of the refresh (SpecRefresh)                                 *)
(***************************************************************************)
\* C17: _needs_refresh of a provider whose refresh window is w answers true
\* exactly when w is nonzero, the account's expires_at is set and
\* expires_at - now < w; so with w = 0 it is false at every expires_at and
\* every time, and with expires_at unset it is false for every w
C17_RefreshWindow ==
    [][\A i \in AccountIds, w \in Windows :
          NeedsRefreshWith(i, w) =>
              /\ last'.result = "True" <=>
                    /\ w # 0
                    /\ accounts[i].expires_at # NoTime
                    /\ accounts[i].expires_at - now < w
              /\ w = 0 => last'.result = "False"
              /\ accounts[i].expires_at = NoTime => last'.result = "False"]_vars

\* a window of 0 was asked about an account whose expires_at has passed
C17_Witness ==
    /\ last.op = "_needs_refresh"
    /\ last.w = 0
    /\ last.result = "False"
    /\ accounts[1].expires_at # NoTime
    /\ accounts[1].expires_at < now

\* C18: has_expired_credentials of a provider whose expiry window is w
\* answers true exactly when w > 0, expires_at is set and
\* now - expires_at > w; with w = 0 it is false at every expires_at and time
C18_ExpiryWindow ==
    [][\A i \in AccountIds, w \in Windows :
          HasExpiredCredentialsWith(i, w) =>
              /\ last'.result = "True" <=>
                    /\ w > 0
                    /\ accounts[i].expires_at # NoTime
                    /\ now - accounts[i].expires_at > w
              /\ w = 0 => last'.result = "False"]_vars

\* a positive window was asked about after it had run out
C18_Witness ==
    /\ last.op = "has_expired_credentials"
    /\ last.w > 0
    /\ last.result = "True"

\* C19: refresh_oauth_key returns False, does not ask the provider and
\* leaves the account as it was when no auto_refresh_url is configured, when
\* the client credentials are missing, when the refresh is neither needed
\* nor forced, or when the credentials have expired and the refresh is not
\* forced; a forced refresh with both configured does ask the provider
C19_RefreshShortCircuit ==
    [][\A i \in AccountIds, cfg \in Configs, force \in BOOLEAN :
          /\ ( \/ ~cfg.auto_refresh_url
               \/ ~cfg.client
               \/ /\ ~force
                  /\ ~ /\ cfg.refresh_time # 0
                        /\ accounts[i].expires_at # NoTime
                        /\ accounts[i].expires_at - now < cfg.refresh_time
               \/ /\ ~force
                  /\ cfg.expiry_time > 0
                  /\ accounts[i].expires_at # NoTime
                  /\ now - accounts[i].expires_at > cfg.expiry_time )
             => \A answer \in RefreshAnswers :
                    RefreshOauthKeyWith(i, cfg, force, answer) =>
                        /\ last'.result = "False"
                        /\ ~last'.called
                        /\ accounts' = accounts
          /\ (force /\ cfg.auto_refresh_url /\ cfg.client)
             => \A answer \in RefreshAnswers :
                    RefreshOauthKeyWith(i, cfg, force, answer) => last'.called]_vars

\* a forced refresh returned False without asking the provider
C19_Witness ==
    /\ last.op = "refresh_oauth_key"
    /\ last.force
    /\ last.result = "False"
    /\ ~last.called

\* C20: when the provider rejects the refresh, a forced refresh raises the
\* rejection and an unforced one returns False, and in both cases the
\* account's oauth_key, refresh_token, expires_at and date_last_refreshed
\* are as before
C20_RefreshRejection ==
    [][\A i \in AccountIds, cfg \in Configs, force \in BOOLEAN :
          \A answer \in {a \in RefreshAnswers : a.kind \in Rejections} :
              (RefreshOauthKeyWith(i, cfg, force, answer) /\ last'.called) =>
                  /\ last'.result = IF force THEN "raised" ELSE "False"
                  /\ accounts'[i].oauth_key = accounts[i].oauth_key
                  /\ accounts'[i].refresh_token = accounts[i].refresh_token
                  /\ accounts'[i].expires_at = accounts[i].expires_at
                  /\ accounts'[i].date_last_refreshed = accounts[i].date_last_refreshed]_vars

\* the provider rejected a forced refresh
C20_Witness ==
    /\ last.op = "refresh_oauth_key"
    /\ last.called
    /\ last.force
    /\ last.answer \in Rejections
    /\ last.result = "raised"

OwnersOf(a) == {w \in Users : a \in external_accounts[w]}

\* C22: when the provider's revoke call fails in transport (an HTTP error,
\* a connection error, a timeout), revoke_oauth_access raises nothing and
\* the user's ledger has no entry for the account afterwards
C22_RemoteRevokeBestEffort ==
    [][\A u \in Users, a \in AccountIds, answer \in RemoteAnswers \ {"200"} :
          (RevokeOauthAccessWith(u, a, answer) /\ last'.asked) =>
              /\ last'.result = "None"
              /\ \A n \in Nodes : ~HasGrant(oauth_grants', u, n, a)]_vars

\* C23: revoke_oauth_access asks the provider to revoke the token exactly
\* when the revoking user is the only user who has the account; while
\* another user has it the provider is not asked
C23_RemoteRevokeOnlyOwner ==
    [][\A u \in Users, a \in AccountIds, answer \in RemoteAnswers :
          RevokeOauthAccessWith(u, a, answer) =>
              /\ last'.asked <=> OwnersOf(a) = {u}
              /\ OwnersOf(a) \ {u} # {} => ~last'.asked]_vars

\* a user revoked an account another user has too, and the provider was
\* not asked
C23_Witness ==
    /\ last.op = "revoke_oauth_access"
    /\ last.result = "None"
    /\ ~last.asked
    /\ last.account \in external_accounts[last.user]
    /\ OwnersOf(last.account) \ {last.user} # {}

\* C24: no grant, revoke, deauthorize, merge or fork adds or removes an
\* ExternalAccount row or changes which remote identity a row stands for:
\* the rows are those the handshakes created
C24_RevokeKeepsAccounts ==
    [][/\ DOMAIN accounts' = DOMAIN accounts
       /\ \A i \in DOMAIN accounts :
            /\ accounts'[i].provider = accounts[i].provider
            /\ accounts'[i].provider_id = accounts[i].provider_id]_vars

\* the only user of an account revoked it, the provider was asked, no grant
\* for it is left, and its row is there
C24_Witness ==
    /\ last.op = "revoke_oauth_access"
    /\ last.result = "None"
    /\ last.asked
    /\ \A w \in Users, n \in Nodes : ~HasGrant(oauth_grants, w, n, last.account)
    /\ last.account \in DOMAIN accounts
    /\ accounts[last.account].provider_id = "r1"

\* C25: after revoke_oauth_access returned for an account whose token the
\* provider was asked to revoke, the account's oauth_key, oauth_secret and
\* refresh_token are cleared
C25_RevocationClearsSecrets ==
    [][\A u \in Users, a \in AccountIds, answer \in RemoteAnswers :
          (RevokeOauthAccessWith(u, a, answer) /\ last'.asked /\ last'.result = "None") =>
              /\ accounts'[a].oauth_key = None
              /\ accounts'[a].oauth_secret = None
              /\ accounts'[a].refresh_token = None]_vars

(***************************************************************************)
(* Properties of the bindings' operations (Spec)                           *)
(***************************************************************************)
\* C26: deauthorize of a node's settings, whatever they hold, leaves them
\* with no account, no user settings and no folder id, name or path, and
\* leaves every user's ledger as it was: a grant for the node and the
\* account that was there before is there after
C26_DeauthorizeKeepsGrant ==
    [][\A n \in DOMAIN node_settings :
          Deauthorize(n) =>
              /\ node_settings'[n].external_account = 0
              /\ node_settings'[n].user_settings = None
              /\ node_settings'[n].folder_id = None
              /\ node_settings'[n].folder_name = None
              /\ node_settings'[n].folder_path = None
              /\ \A w \in Users : oauth_grants'[w] = oauth_grants[w]]_vars

\* settings that had an account and a folder were deauthorized, and the
\* grant their account was used under is in the ledger
C26_Witness ==
    /\ last.op = "deauthorize"
    /\ last.before.external_account # 0
    /\ last.before.folder_id # None
    /\ node_settings[last.node].external_account = 0
    /\ HasGrant(oauth_grants, last.before.user_settings, last.node,
                last.before.external_account)

\* every grant of every ledger is still there after the step
GrantsKept ==
    \A w \in Users, n \in Nodes, a \in AccountIds :
        HasGrant(oauth_grants, w, n, a) => HasGrant(oauth_grants', w, n, a)

Rebegun == last.op = "auth_url" /\ last.replaced # 0 /\ last.replaced # last.issued

C29_HandshakeConsumed ==
    [][\A h \in Handshakes : Pending(h) =>
       \A args \in CallbackArgs :
       \A io \in AnswersTo(h[1], h[2], args) : AuthCallbackWith(h[1], h[2], args, io)
        => h[2] \notin DOMAIN oauth_states'[h[1]]]_vars

\* C30: a callback that carries the pending value and whose token request
\* fails in transport (a connection error or timeout, a missing token or an
\* HTTP error) raises, leaves the handshake pending with the same value and
\* leaves the ExternalAccount table and every user's accounts as they were
C30_ExchangeFailureKeepsState ==
    [][\A h \in Handshakes : Pending(h) =>
       \A args \in CallbackArgs : (~args.error /\ ~Differs(h, args)) =>
       \A io \in {x \in ProviderAnswers(h[2], now) : x.exchange # "ok"} :
        AuthCallbackWith(h[1], h[2], args, io)
        => /\ last'.exchanged
           /\ last'.result \in {"raised", "HTTPError 503"}
           /\ oauth_states' = oauth_states
           /\ accounts' = accounts
           /\ external_accounts' = external_accounts]_vars

\* a token request failed and the handshake is still pending
C30_Witness ==
    /\ last.op = "auth_callback"
    /\ last.exchanged
    /\ last.result = "HTTPError 503"
    /\ Pending(<<"u1", "box">>)

(***************************************************************************)
(* More properties of the refresh (SpecRefresh)                            *)
(***************************************************************************)
\* C31: a refresh whose request to the provider fails (a rejection, a
\* connection error or timeout) or is answered with a token that lacks
\* refresh_token or expires_in does not return True and leaves the saved
\* account's oauth_key, refresh_token, expires_at and date_last_refreshed
\* all as they were
C31_NoPartialCredentials ==
    [][\A i \in AccountIds, cfg \in Configs, force \in BOOLEAN :
          \A answer \in {a \in RefreshAnswers :
                            \/ a.kind # "ok"
                            \/ ~({"access_token", "refresh_token", "expires_in"}
                                    \subseteq DOMAIN a.token)} :
              (RefreshOauthKeyWith(i, cfg, force, answer) /\ last'.called) =>
                  /\ last'.result # "True"
                  /\ accounts'[i].oauth_key = accounts[i].oauth_key
                  /\ accounts'[i].refresh_token = accounts[i].refresh_token
                  /\ accounts'[i].expires_at = accounts[i].expires_at
                  /\ accounts'[i].date_last_refreshed = accounts[i].date_last_refreshed]_vars

\* the provider answered a refresh with a token that lacks a field: the
\* call raised and the account holds the token it held
C31_Witness ==
    /\ last.op = "refresh_oauth_key"
    /\ last.called
    /\ last.answer = "ok"
    /\ last.result = "raised"
    /\ accounts[1].oauth_key = "T1"
    /\ accounts[1].refresh_token = "R1"

(***************************************************************************)
(* Properties of concurrent requests (SpecRace)                            *)
(***************************************************************************)
\* C32: requests that work on the same user's ledger at the same time lose
\* no update: when every request was a grant and every one has saved, the
\* ledger holds the grant of each of them, as it would had they run one
\* after the other in any order
C32_NoLostUpdate ==
    (/\ DOMAIN in_flight = Requests
     /\ \A r \in Requests :
            in_flight[r].pc = "saved" /\ in_flight[r].call.op = "grant_oauth_access")
    => \A r \in Requests :
          HasGrant(oauth_grants, in_flight[r].user, in_flight[r].call.node,
                   in_flight[r].call.account)

\* C33: of the requests that refresh the same account while its token is
\* in the refresh window, at most one asks the provider for that expiry, and
\* the saved refresh token is never an older one than a request was given
C33_RefreshDeduplicated ==
    /\ \A r1 \in Called, r2 \in Called :
          (/\ in_flight[r1].account = in_flight[r2].account
           /\ in_flight[r1].row.expires_at = in_flight[r2].row.expires_at)
          => r1 = r2
    /\ (Called # {} /\ \A r \in Called : in_flight[r].pc = "saved")
          => \A r \in Called :
                accounts[in_flight[r].account].refresh_token
                    = <<"R", Cardinality(Called)>>

(***************************************************************************)
(* More properties of the handshake (SpecHandshake)                        *)
(***************************************************************************)
\* a callback has just failed with a handshake error
Failed == last.op = "auth_callback" /\ last.result \in HandshakeErrors

\* C34: whatever a callback has just failed with, auth_url can be called
\* for any user and provider and stores the value it issues in place of any
\* pending one; and the callback that carries the value auth_url has just
\* issued and whose exchange succeeds returns True, leaves no handshake
\* pending and leaves the account among the user's accounts
C34_FailureRecoverable ==
    [][/\ Failed =>
          \A h \in Handshakes, issued \in Nonces :
            AuthUrlWith(h[1], h[2], issued) =>
                /\ last'.result = "url"
                /\ cached_value(h[2], oauth_states'[h[1]][h[2]]) = issued
       /\ last.op = "auth_url" =>
          \A args \in CallbackArgs : (~args.error /\ args.value = last.issued) =>
          \A io \in ProviderAnswers(last.provider, now) :
            (/\ io.exchange = "ok" /\ io.hook = "ok"
             /\ (last.provider = "box" => "refresh_token" \in DOMAIN io.data)
             /\ AuthCallbackWith(last.user, last.provider, args, io))
            => /\ last'.result = "True"
               /\ last.provider \notin DOMAIN oauth_states'[last.user]
               /\ \E i \in external_accounts'[last.user] :
                    /\ accounts'[i].provider = last.provider
                    /\ accounts'[i].provider_id = io.about.id]_vars

\* user u1's callback of the OAuth1 provider has just failed for its token
\* (no other handshake is pending), its handshake is still pending, and
\* another user's account is stored
C34_Witness ==
    /\ Failed
    /\ last.result = MismatchError
    /\ Pending(<<"u1", "legacy">>)
    /\ ~Pending(<<"u1", "box">>)
    /\ ~Pending(<<"u2", "box">>)
    /\ external_accounts["u2"] # {}

\* C36: a callback that returns True leaves the account it stored among the
\* accounts of the user who made it, once (the user's accounts are the ones
\* the user had and that one) and among no other user's, so that the
\* ownership check of grant_oauth_access passes for that user and account;
\* no other call adds an account to any user's accounts
C36_CompleteLinksActor ==
    [][/\ (last'.op = "auth_callback" /\ last'.result = "True") =>
          \A h \in Handshakes : Pending(h) =>
          \A args \in CallbackArgs : (~args.error /\ ~Differs(h, args)) =>
          \A io \in {x \in ProviderAnswers(h[2], now) : x.exchange = "ok" /\ x.hook = "ok"} :
            AuthCallbackWith(h[1], h[2], args, io) =>
                \E i \in DOMAIN accounts' :
                    /\ accounts'[i].provider = h[2]
                    /\ accounts'[i].provider_id = io.about.id
                    /\ external_accounts'[h[1]] = external_accounts[h[1]] \cup {i}
                    /\ \A w \in Users \ {h[1]} :
                            external_accounts'[w] = external_accounts[w]
                    /\ grant_oauth_access(EmptyMap, external_accounts'[h[1]], "n1", i,
                                          EmptyMap).raised = None
       /\ ~(last'.op = "auth_callback" /\ last'.result = "True")
            => external_accounts' = external_accounts]_vars

\* u1 and u2 each completed the Box handshake for the same identity: the
\* one row is among the accounts of both, and is the only account of each
C36_Witness ==
    /\ last.op = "auth_callback" /\ last.result = "True"
    /\ external_accounts["u1"] = external_accounts["u2"]
    /\ Cardinality(external_accounts["u2"]) = 1
    /\ \E i \in external_accounts["u2"] : accounts[i].provider = "box"

(***************************************************************************)
(* Properties of the writes of merge (SpecMergeWrites)                     *)
(***************************************************************************)
\* C35: once a merge has returned, no node's settings reference the source
\* user's settings; and in every saved state, those between the writes of a
\* merge included, the settings of a node that reference an account
\* reference user settings whose ledger holds the grant of that node for
\* that account
C35_MergeRepointsBindings ==
    /\ \A r \in DOMAIN in_flight :
          in_flight[r].pc = "returned" =>
              \A n \in DOMAIN node_settings :
                  node_settings[n].user_settings # in_flight[r].src
    /\ \A n \in DOMAIN node_settings :
          node_settings[n].external_account # 0 =>
              /\ node_settings[n].user_settings # None
              /\ HasGrant(oauth_grants, node_settings[n].user_settings, n,
                          node_settings[n].external_account)

(***************************************************************************)
(* More properties of whole revoke calls (SpecRevoke)                      *)
(***************************************************************************)
\* C37: revoke_oauth_access of one user's settings leaves every other
\* user's ledger as it was and leaves as they were the settings of every
\* node that another user authorized, also when the revoking user's ledger
\* holds a grant of that node for the account
C37_RevokeOwnerScoped ==
    [][\A u \in Users, a \in AccountIds, answer \in RemoteAnswers :
          RevokeOauthAccessWith(u, a, answer) =>
              /\ \A w \in Users \ {u} : oauth_grants'[w] = oauth_grants[w]
              /\ \A n \in DOMAIN node_settings :
                    node_settings[n].user_settings \notin {None, u}
                    => node_settings'[n] = node_settings[n]]_vars

(***************************************************************************)
(* Forks and set_auth (Spec, SpecSetAuthWrites)                            *)
(***************************************************************************)
\* C38: when node n is forked into f by the user whose settings authorized
\* n's settings and whose ledger holds the grant of n for their account, the
\* user's ledger gains a grant of f for that account with the metadata of
\* n's grant, f's settings reference the account and the user, and n's grant
\* and n's settings are as they were
C38_ForkByAuthorizer ==
    [][\A n \in Nodes, f \in Nodes, u \in Users :
          (/\ AfterFork(n, f, u)
           /\ node_settings[n].user_settings = u
           /\ has_auth(node_settings[n], n, external_accounts, oauth_grants))
          => LET a == node_settings[n].external_account
             IN /\ HasGrant(oauth_grants', u, f, a)
                /\ oauth_grants'[u][f][a] = oauth_grants[u][n][a]
                /\ node_settings'[f].external_account = a
                /\ node_settings'[f].user_settings = u
                /\ oauth_grants'[u][n] = oauth_grants[u][n]
                /\ node_settings'[n] = node_settings[n]]_vars

\* a fork by the authorizing user copied a grant that has metadata
C38_Witness ==
    /\ last.op = "after_fork" /\ last.result = "copied"
    /\ \E n \in DOMAIN node_settings, f \in DOMAIN node_settings, u \in Users :
          /\ n # f
          /\ node_settings[n].user_settings = u
          /\ node_settings[f].user_settings = u
          /\ node_settings[n].external_account # 0
          /\ node_settings[f].external_account = node_settings[n].external_account
          /\ HasGrant(oauth_grants, u, n, node_settings[n].external_account)
          /\ HasGrant(oauth_grants, u, f, node_settings[n].external_account)
          /\ oauth_grants[u][n][node_settings[n].external_account] # EmptyMap
          /\ oauth_grants[u][f][node_settings[n].external_account]
                = oauth_grants[u][n][node_settings[n].external_account]

\* C39: set_auth records the grant before it updates the node settings: when
\* set_auth(account, user) returns, the settings reference the account and
\* the user's ledger verifies (node, account); when the user does not own
\* the account set_auth raises PermissionsError and the settings and the
\* ledgers are as they were; and in no saved state do node settings
\* reference an account that the ledger of the user they reference has no
\* grant for
C39_GrantBeforeBinding ==
    /\ [](\A n \in DOMAIN node_settings :
              node_settings[n].external_account # 0 =>
                  /\ node_settings[n].user_settings # None
                  /\ HasGrant(oauth_grants, node_settings[n].user_settings, n,
                              node_settings[n].external_account))
    /\ [][\A r \in Requests :
              SetAuthBind(r) =>
                  /\ node_settings'[in_flight[r].node].external_account
                        = in_flight[r].account
                  /\ node_settings'[in_flight[r].node].user_settings
                        = in_flight[r].user
                  /\ verify_oauth_access(oauth_grants'[in_flight[r].user],
                                         in_flight[r].node, in_flight[r].account,
                                         EmptyMap)]_vars
    /\ [][\A r \in Requests, n \in Nodes, a \in AccountIds, u \in Users :
              (SetAuthGrant(r, n, a, u) /\ a \notin external_accounts[u]) =>
                  /\ last'.result = "PermissionsError"
                  /\ UNCHANGED <<node_settings, oauth_grants, in_flight>>]_vars

\* between the two writes of a set_auth: the grant of a node is saved and
\* the node's settings do not reference the account yet, while the settings
\* of a node that an earlier set_auth connected reference theirs
C39_Witness ==
    /\ \E r \in DOMAIN in_flight :
          /\ in_flight[r].pc = "granted"
          /\ node_settings[in_flight[r].node].external_account = 0
          /\ HasGrant(oauth_grants, in_flight[r].user, in_flight[r].node,
                      in_flight[r].account)
    /\ \E n \in DOMAIN node_settings : node_settings[n].external_account # 0

====
